---- MODULE Spec2Model ----
(***************************************************************************)
(* Model of the camera acquisition servers zwocamServ (single-shot, ZWO)   *)
(* and taucamServ (stacking, FLIR Tau): the per-connection hooks           *)
(* client_add / client_del / client_recv / client_send_binary, the image   *)
(* request takeImage and the session parameters.  The connection server    *)
(* framework (sockserv) is external: it may invoke the hooks of an open    *)
(* connection in any order.                                                *)
(*                                                                         *)
(* Times are integers in units of 1/10000 s, so that one quantization step *)
(* of com_etime (0.001 s) is 10 units and values between steps exist.      *)
(***************************************************************************)
EXTENDS Integers, Sequences, FiniteSets, TLC

VARIABLES focus, variant, alive, etime, frame_count, exp_start_ts, ss_etime,
          ss_running, conn, heap, hosts, fds, resp, out, xfer, last,
          gain, ss_gain, dev_gain, rx,
          now, stop_ts, pc, cb, stack_data, image, stackcnt, shots, win, mtx,
          mpc, sig, req, acq, calls

vars == <<focus, variant, alive, etime, frame_count, exp_start_ts, ss_etime,
          ss_running, conn, heap, hosts, fds, resp, out, xfer, last,
          gain, ss_gain, dev_gain, rx,
          now, stop_ts, pc, cb, stack_data, image, stackcnt, shots, win, mtx,
          mpc, sig, req, acq, calls>>

(* session gain, registry gain, gain mode applied to the device *)
gvars == <<gain, ss_gain, dev_gain>>

(* the stacking threads: the clock, the stop timestamp and the position of  *)
(* takeImage, the position and the frame of callbackTauImage, the           *)
(* accumulator, the output buffer, the STACKCNT header value, the requests  *)
(* started, the frames of the current exposure                              *)
svars == <<now, stop_ts, pc, cb, stack_data, image, stackcnt, shots, win>>

(* the main thread: its position in main() (a start-up step, "unblocked"    *)
(* between two calls of sockserv_run, "poll" inside one) and whether a      *)
(* termination signal is pending                                            *)
lvars == <<mpc, sig>>

(* the requests: the connections whose image line was sent and not yet      *)
(* received (req), the connection whose image request is being handled      *)
(* (acq, 0 for none) and the device calls of that request (calls)           *)
qvars == <<req, acq, calls>>

(* mtx: whether the step that led to the state ran between mtx.lock() and   *)
(* mtx.unlock()                                                             *)

-----------------------------------------------------------------------------
(* Bounds of the model *)

NumConns == 2
MaxAlloc == 2
MaxBlocks == 2
MaxFrames == 1
MaxFds == 1
MaxTicks == 3
MaxStackFrames == 4
MaxShots == 2
(* status polls of one wait loop that find the device still working *)
MaxPolls == 1
(* length of the sample strings handed to str_to_gain *)
MaxGainStrLen == 4
(* number of pixels of the accumulators handed to the bias correction *)
MaxBiasLen == 2
(* length and largest pixel of the arrays handed to medianCalculation *)
MaxMedianLen == 5
MaxMedianPixel == 2

(* Program constants *)

Unit == 10 * 1000
SEND_BUF_SIZE == 5000
FITS_BLOCK == 2880
INT_MAX == 2147483647
INT_MIN == -INT_MAX - 1
tgt_min == Unit \div 1000
tgt_max == 600 * Unit
tgt_stp == Unit \div 1000
etime_eps == Unit \div 10000
MIN_ETIME == Unit \div 10
MAX_ETIME == 600 * Unit
DEFAULT_ETIME == 1 * Unit
MIN_GAIN == 0
MAX_GAIN == 510

Conns == 1..NumConns

(* connections the environment uses *)
ActiveConns ==
  IF focus = "multi" THEN Conns ELSE IF focus = "pair" THEN {1, 2} ELSE {1}
Variants == {"zwo", "tau"}
(* the programs that stack frames: taucamServ and taucamLocal *)
StackVariants == {"tau", "local"}
Sizes == {FITS_BLOCK * k : k \in 1..MaxBlocks}

NULL == 0
(* no length: the hook left *len untouched, or the response has no number *)
NoLen == 0 - 1

-----------------------------------------------------------------------------
(* Heap of image buffers: every cli_malloc(st_size) result is an entry,     *)
(* size its length, filled the bytes read into it, frees the calls of       *)
(* free() on it.  hosts counts the hostname strings allocated by cli_strdup *)
(* and not yet freed.                                                       *)

HeapObj(size, filled) == [size |-> size, filled |-> filled, frees |-> 0]

(* variant: one buffer for all connections, free() releases every block *)
Free_all(h, p) ==
  [i \in DOMAIN h |-> [size |-> 0, filled |-> 0, frees |-> h[i].frees + 1]]

(* free(p); the contents of a freed buffer are gone *)
Free(h, p) == [h EXCEPT ![p] = [size |-> 0, filled |-> 0, frees |-> @.frees + 1]]

(* a buffer whose only pointer was overwritten or freed with its owner can  *)
(* no longer be read: its contents are dropped from the state, the entry    *)
(* stays as an allocation that was never freed                              *)
Lose(h, p) ==
  IF p # NULL /\ h[p].frees = 0
  THEN [h EXCEPT ![p] = [size |-> 0, filled |-> 0, frees |-> 0]]
  ELSE h

(* client_info_t after memset(cinfo, 0, ...) *)
client_info_zero ==
  [open |-> FALSE, hostname |-> NULL, send_data |-> 0, data_count |-> 0,
   total_count |-> 0, image_data |-> NULL]

NoResp == [c |-> 0, mark |-> "none", cmd |-> "", text |-> "", val |-> 0]
NoOut == [c |-> 0, len |-> NoLen, src |-> NULL, off |-> 0]
NoLast == [op |-> "init", c |-> 0, res |-> "", a |-> 0, b |-> 0]

(* no line: the step was not the receive hook on a sample line *)
NoLine == << >>

(* gain_t, in the order of the enumeration: GAIN_AUTO is 0 *)
GainModes == <<"AUTO", "HIGH", "LOW", "MANUAL">>

(* largest unsigned short: where the minimum search starts and where a      *)
(* difference is clamped                                                    *)
USHRT_MAX == 65535
EXPOSE_TIMEOUT == 5 * Unit
(* takeImage calls of taucamLocal's main(): image 1 and image 2 *)
LOCAL_SHOTS == 2

(* time between two readings of the clock that differ *)
ClockStep == 3 * Unit
(* the first reading of the clock *)
ClockStart == 1 * Unit

(* stack_data == NULL: nothing allocated, width * height is 0 *)
NoStack == << >>
NoImage == << >>
cb_idle == [pc |-> "idle", bitmap |-> << >>, reset |-> FALSE]

(* argv[2] of taucamLocal: the four names, names in other spellings, with  *)
(* more characters than strncmp looks at, and every string of up to        *)
(* MaxGainStrLen of the letters L, O, W                                    *)
GainStrings ==
  {<<"A", "U", "T", "O">>, <<"H", "I", "G", "H">>, <<"L", "O", "W">>,
   <<"M", "A", "N", "U", "A", "L">>,
   <<"a", "u", "t", "o">>, <<"h", "i", "g", "h">>, <<"H", "I", "G">>,
   <<"M", "A", "N", "U", "A", "L", "L", "Y">>,
   <<"A", "U", "T", "O", "M", "A", "T", "I", "C", "A", "L", "L", "Y">>,
   <<"5">>}
  \cup UNION {[1..n -> {"L", "O", "W"}] : n \in 0..MaxGainStrLen}

(* what a pixel of the accumulator can hold when the output buffer is      *)
(* built: taucamServ stores pixels, taucamLocal adds pixels less the       *)
(* median of their frame, sums below 0 and above 65535 included            *)
AccumulatorLevels ==
  IF variant = "local"
  THEN {-2 * USHRT_MAX, -USHRT_MAX, -1, 0, 1, USHRT_MAX, USHRT_MAX + 1,
        2 * USHRT_MAX, 3 * USHRT_MAX}
  ELSE {0, 1, USHRT_MAX}

BiasInputs == UNION {[1..n -> AccumulatorLevels] : n \in 1..MaxBiasLen}

(* the arrays medianCalculation is applied to: every non-empty array of    *)
(* pixels up to the bounds, arrays with equal elements included            *)
MedianInputs ==
  UNION {[1..n -> 0..MaxMedianPixel] : n \in 1..MaxMedianLen}

(* the frames added to the accumulator since the exposure started, while   *)
(* the request is between its start and the point where the output buffer   *)
(* is built or the request is given up                                      *)
NoWindow == [open |-> FALSE, frames |-> << >>]

Min(a, b) == IF a < b THEN a ELSE b
Abs(a) == IF a < 0 THEN -a ELSE a

-----------------------------------------------------------------------------
(* main(): zwocamServ memset()s serv_info to 0 and never assigns etime;     *)
(* taucamServ assigns DEFAULT_ETIME and stores it into the registry.        *)

InitFor(f) ==
  /\ focus = f
  /\ variant \in (IF f \in {"stack", "bias"} THEN StackVariants
                  ELSE IF f = "argv" THEN {"local"} ELSE Variants)
  /\ alive = TRUE
  /\ etime = IF variant = "zwo" THEN 0 ELSE DEFAULT_ETIME
  /\ frame_count = 0
  /\ exp_start_ts = 0
  /\ ss_etime = IF variant = "zwo" THEN NoLen ELSE DEFAULT_ETIME
  /\ ss_running \in (IF f = "life" THEN BOOLEAN ELSE {TRUE})
  /\ conn = [c \in Conns |-> client_info_zero]
  /\ heap = << >>
  /\ hosts = 0
  /\ fds = 0
  /\ resp = NoResp
  /\ out = NoOut
  /\ xfer = [c \in Conns |-> << >>]
  /\ last = NoLast
  /\ gain = IF variant = "zwo" THEN 0 ELSE GainModes[1]
  /\ ss_gain = IF variant = "zwo" THEN NoLen ELSE GainModes[1]
  /\ dev_gain = IF variant = "zwo" THEN NoLen ELSE GainModes[1]
  /\ rx \in (IF f = "argv" THEN GainStrings ELSE {NoLine})
  /\ now = ClockStart
  /\ stop_ts = 0
  /\ pc = IF f = "bias" THEN "bias" ELSE "idle"
  /\ cb \in (IF f = "median"
             THEN {[pc |-> "median", bitmap |-> a, reset |-> FALSE] :
                     a \in MedianInputs}
             ELSE {cb_idle})
  /\ stack_data \in (IF f = "bias" THEN BiasInputs ELSE {NoStack})
  /\ image = NoImage
  /\ stackcnt = NoLen
  /\ shots = 0
  /\ win = NoWindow
  /\ mtx = FALSE
  /\ mpc = IF f = "life" THEN "touch" ELSE "poll"
  /\ sig = FALSE
  /\ req = {}
  /\ acq = IF f = "bias" THEN 1 ELSE 0
  /\ calls = << >>

(* Streaming of one connection, with the history of its exchanges *)
Init == InitFor("stream")

(* Image requests with every outcome of every step *)
InitImage == InitFor("image")

(* Exposure-time commands with every kind of argument *)
InitEtime == InitFor("etime")

-----------------------------------------------------------------------------
(* client_add: allocate the client structure and its hostname string *)

client_add(c) ==
  /\ alive
  /\ ~conn[c].open
  /\ hosts' = hosts + 1
  /\ conn' = [conn EXCEPT ![c] = [client_info_zero EXCEPT
                                    !.open = TRUE, !.hostname = 1]]
  /\ xfer' = [xfer EXCEPT ![c] = << >>]
  /\ resp' = NoResp
  /\ out' = NoOut
  /\ last' = [op |-> "add", c |-> c, res |-> "", a |-> 0, b |-> 0]
  /\ UNCHANGED <<focus, variant, alive, etime, frame_count, exp_start_ts, ss_etime,
                 ss_running, heap, fds>>

-----------------------------------------------------------------------------
(* client_del: free the hostname, (taucamServ only) the pending image       *)
(* buffer, and the client structure itself.                                 *)

del_frees_image == variant = "tau"

client_del_heap(ci, h) ==
  IF del_frees_image /\ ci.image_data # NULL
  THEN Free(h, ci.image_data) ELSE Lose(h, ci.image_data)

client_del_hosts(ci, n) == IF ci.hostname # NULL THEN n - 1 ELSE n

client_del(c) ==
  /\ alive
  /\ conn[c].open
  /\ heap' = client_del_heap(conn[c], heap)
  /\ hosts' = client_del_hosts(conn[c], hosts)
  /\ conn' = [conn EXCEPT ![c] = client_info_zero]
  /\ xfer' = [xfer EXCEPT ![c] = << >>]
  /\ resp' = NoResp
  /\ out' = NoOut
  /\ last' = [op |-> "del", c |-> c, res |-> "",
              a |-> conn[c].hostname, b |-> conn[c].image_data]
  /\ UNCHANGED <<focus, variant, alive, etime, frame_count, exp_start_ts, ss_etime,
                 ss_running, fds>>

-----------------------------------------------------------------------------
(* client_send_binary: the send hook *)

(* variant: the remaining bytes are sent in one chunk, without the limit *)
send_count_nolimit(ci) == ci.total_count - ci.data_count

(* variant: every chunk is a full SEND_BUF_SIZE, also the last one *)
send_count_full(ci) == SEND_BUF_SIZE

(* number of bytes of the next chunk *)
send_count(ci) ==
  IF ci.total_count - ci.data_count > SEND_BUF_SIZE
  THEN SEND_BUF_SIZE
  ELSE ci.total_count - ci.data_count

(* all data sent: the branch data_count == total_count *)
send_final(ci) ==
  [ci EXCEPT !.send_data = 0, !.data_count = 0, !.image_data = NULL]

send_final_heap(ci, h) ==
  IF ci.image_data # NULL THEN Free(h, ci.image_data) ELSE h

(* one more chunk *)
send_chunk(ci) == [ci EXCEPT !.data_count = @ + send_count(ci)]

(* memcpy(buffer, image_data + data_count, send_count) reads inside a live  *)
(* allocation; otherwise the behaviour is undefined.                        *)
copy_defined(ci, h) ==
  /\ ci.image_data # NULL
  /\ h[ci.image_data].frees = 0
  /\ ci.data_count + send_count(ci) <= h[ci.image_data].size

(* history of the exchanges of a connection that are still being streamed:  *)
(* declared length L, the buffer allocated for it, bytes reported so far,   *)
(* and whether every chunk so far was the next slice of that payload.       *)
xfer_chunk(xs, h, o) ==
  IF focus # "stream" THEN xs ELSE
  [i \in DOMAIN xs |->
     [xs[i] EXCEPT
        !.ok = /\ @
               /\ o.src = xs[i].buf
               /\ o.off = xs[i].sum
               /\ o.off + o.len <= h[xs[i].buf].filled,
        !.sum = @ + o.len]]

client_send_binary(c) ==
  LET ci == conn[c] IN
  /\ alive
  /\ ci.open
  /\ resp' = NoResp
  /\ UNCHANGED <<focus, variant, etime, frame_count, exp_start_ts, ss_etime,
                 ss_running, hosts, fds>>
  /\ IF ci.send_data = 0
     THEN /\ out' = [NoOut EXCEPT !.c = c]
          /\ last' = [op |-> "send", c |-> c, res |-> "idle", a |-> 0, b |-> 0]
          /\ UNCHANGED <<alive, conn, heap, xfer>>
     ELSE IF ci.data_count = ci.total_count
     THEN /\ out' = [c |-> c, len |-> 0, src |-> NULL, off |-> 0]
          /\ conn' = [conn EXCEPT ![c] = send_final(ci)]
          /\ heap' = send_final_heap(ci, heap)
          /\ last' = [op |-> "send", c |-> c, res |-> "final",
                      a |-> ci.image_data, b |-> 0]
          /\ UNCHANGED <<alive, xfer>>
     ELSE IF copy_defined(ci, heap)
     THEN /\ out' = [c |-> c, len |-> send_count(ci),
                     src |-> ci.image_data, off |-> ci.data_count]
          /\ conn' = [conn EXCEPT ![c] = send_chunk(ci)]
          /\ xfer' = [xfer EXCEPT ![c] = xfer_chunk(@, heap, out')]
          /\ last' = [op |-> "send", c |-> c, res |-> "chunk", a |-> 0, b |-> 0]
          /\ UNCHANGED <<alive, heap>>
     ELSE \/ /\ out' = [c |-> c, len |-> send_count(ci),
                        src |-> NULL, off |-> ci.data_count]
             /\ conn' = [conn EXCEPT ![c] = send_chunk(ci)]
             /\ xfer' = [xfer EXCEPT ![c] = xfer_chunk(@, heap, out')]
             /\ last' = [op |-> "send", c |-> c, res |-> "garbage",
                         a |-> 0, b |-> 0]
             /\ UNCHANGED <<alive, heap>>
          \/ /\ alive' = FALSE
             /\ out' = NoOut
             /\ last' = [op |-> "send", c |-> c, res |-> "crash",
                         a |-> 0, b |-> 0]
             /\ UNCHANGED <<conn, heap, xfer>>

-----------------------------------------------------------------------------
(* Exposure time commands *)

(* A double is modelled as an integer number of units, or as "big": a      *)
(* value of at least 2^31 quantization steps (about 2147483.648 s), which   *)
(* is all that matters about it.                                            *)
Dbl(x) == [big |-> FALSE, v |-> x]
BigDbl == [big |-> TRUE, v |-> 0]

(* C conversion (int)x of the quotient a / b: truncation toward zero *)
Trunc(a, b) == IF a >= 0 THEN a \div b ELSE -((-a) \div b)

(* printf("%.<d>f"): decimal rounding to a step *)
RoundTo(x, st) == ((x + st \div 2) \div st) * st
Fmt3(x) == IF x >= 0 THEN RoundTo(x, Unit \div 1000) ELSE -RoundTo(-x, Unit \div 1000)
Fmt4(x) == IF x >= 0 THEN RoundTo(x, Unit \div 10000) ELSE -RoundTo(-x, Unit \div 10000)

(* argument of an etime command: "<sec>" or "<min>:<sec>"; big stands for   *)
(* a number of seconds such as 3000000                                      *)
AllEtimeArgs ==
  [colon : {FALSE}, m : {0}, big : {FALSE},
   s : {0, 4, 25004, 25005, -20000, 700 * Unit}]
  \cup [colon : {FALSE}, m : {0}, big : {TRUE}, s : {0}]
  \cup [colon : {TRUE}, m : {1}, big : {FALSE}, s : {305000}]

EtimeArgs ==
  IF focus = "etime" THEN AllEtimeArgs
  ELSE [colon : {FALSE}, m : {0}, big : {FALSE},
        s : IF variant = "zwo" THEN {0}
            ELSE IF focus = "stack" THEN {DEFAULT_ETIME}
            ELSE {4, 25004}]

(* outcomes of ssPutPrintf *)
EtimePuts == IF focus = "etime" THEN BOOLEAN ELSE {TRUE}

(* com_etime: atoi(s) * 60.0 + atof(colon+1), or atof(s) *)
parse_etime(arg) ==
  IF arg.big THEN BigDbl
  ELSE IF arg.colon THEN Dbl(arg.m * 60 * Unit + arg.s)
  ELSE Dbl(arg.s)

(* new_etime += tgt_stp/2.; new_etime / tgt_stp, the operand of (int) *)
etime_quot(d) ==
  IF d.big THEN [fits |-> FALSE, q |-> 0]
  ELSE [fits |-> TRUE, q |-> Trunc(d.v + tgt_stp \div 2, tgt_stp)]

(* (int) of a double outside the range of int is undefined: the build may   *)
(* produce the "integer indefinite" value INT_MIN (x86) or saturate (ARM).  *)
int_cast(r) == IF r.fits THEN {r.q} ELSE {INT_MIN, INT_MAX}

(* q * tgt_stp limited to [tgt_min, tgt_max] *)
etime_clamp(q) ==
  IF q > tgt_max \div tgt_stp THEN tgt_max
  ELSE IF q < tgt_min \div tgt_stp THEN tgt_min
  ELSE q * tgt_stp

(* value of serv_info->etime after com_etime, q the converted quotient *)
com_etime_value(cur, d, q) ==
  IF d.big \/ d.v # 0
  THEN LET new_etime == etime_clamp(q)
       IN  IF Abs(cur - new_etime) > etime_eps THEN new_etime ELSE cur
  ELSE cur

com_etime(c, arg, q, put) ==
  /\ variant = "zwo"
  /\ alive
  /\ conn[c].open
  /\ q \in int_cast(etime_quot(parse_etime(arg)))
  /\ etime' = com_etime_value(etime, parse_etime(arg), q)
  /\ ss_etime' = IF put THEN Fmt4(etime') ELSE ss_etime
  /\ resp' = [c |-> c, mark |-> ".", cmd |-> "etime", text |-> "",
              val |-> Fmt3(etime')]
  /\ out' = NoOut
  /\ last' = [op |-> "etime", c |-> c, res |-> "pass", a |-> arg,
              b |-> etime]
  /\ UNCHANGED <<focus, variant, alive, frame_count, exp_start_ts, ss_running,
                 conn, heap, hosts, fds, xfer>>

(* taucamServ client_recv, ETIME branch: strtod must consume the whole      *)
(* argument and the value must lie in [MIN_ETIME, MAX_ETIME].               *)
recv_etime_valid(arg) ==
  /\ ~arg.colon
  /\ ~arg.big
  /\ arg.s >= MIN_ETIME
  /\ arg.s <= MAX_ETIME

(* variant: the etime command also rewinds the send cursor *)
recv_etime_cinfo_rewind(ci) ==
  [ci EXCEPT !.image_data = NULL, !.data_count = 0]

recv_etime_cinfo(ci) == [ci EXCEPT !.image_data = NULL]

recv_etime_heap(ci, h) ==
  IF ci.image_data # NULL THEN Free(h, ci.image_data) ELSE h

recv_etime(c, arg, put) ==
  /\ variant = "tau"
  /\ alive
  /\ conn[c].open
  /\ out' = NoOut
  /\ UNCHANGED <<focus, variant, alive, ss_running, hosts, fds, xfer>>
  /\ IF recv_etime_valid(arg)
     THEN /\ etime' = arg.s
          /\ frame_count' = 0
          /\ exp_start_ts' = 0
          /\ conn' = [conn EXCEPT ![c] = recv_etime_cinfo(@)]
          /\ heap' = recv_etime_heap(conn[c], heap)
          /\ ss_etime' = IF put THEN Fmt3(etime') ELSE ss_etime
          /\ resp' = [c |-> c, mark |-> ".", cmd |-> "ETIME", text |-> "",
                      val |-> NoLen]
          /\ last' = [op |-> "etime", c |-> c, res |-> "pass",
                      a |-> arg, b |-> etime]
     ELSE /\ resp' = [c |-> c, mark |-> "!", cmd |-> "ETIME",
                      text |-> IF arg.colon
                               THEN "Invalid argument specified"
                               ELSE "Invalid exposure time specified",
                      val |-> NoLen]
          /\ last' = [op |-> "etime", c |-> c, res |-> "fail",
                      a |-> arg, b |-> etime]
          /\ UNCHANGED <<etime, frame_count, exp_start_ts, conn, heap,
                         ss_etime>>

-----------------------------------------------------------------------------
(* Disconnection keywords and unrecognised commands *)

recv_exit(c) ==
  /\ alive
  /\ conn[c].open
  /\ resp' = [c |-> c, mark |-> "", cmd |-> "", text |-> "", val |-> NoLen]
  /\ out' = NoOut
  /\ last' = [op |-> "exit", c |-> c, res |-> "", a |-> 0, b |-> 0]
  /\ UNCHANGED <<focus, variant, alive, etime, frame_count, exp_start_ts, ss_etime,
                 ss_running, conn, heap, hosts, fds, xfer>>

recv_other(c) ==
  /\ alive
  /\ conn[c].open
  /\ resp' = [c |-> c, mark |-> "!", cmd |-> "",
              text |-> IF variant = "zwo" THEN "Error" ELSE "Syntax error",
              val |-> NoLen]
  /\ out' = NoOut
  /\ last' = [op |-> "other", c |-> c, res |-> "fail", a |-> 0, b |-> 0]
  /\ UNCHANGED <<focus, variant, alive, etime, frame_count, exp_start_ts, ss_etime,
                 ss_running, conn, heap, hosts, fds, xfer>>

-----------------------------------------------------------------------------
(* Frame-arrival callback of the capture thread (taucamServ), run between   *)
(* two hooks of the foreground thread: outside an exposure window the       *)
(* count restarts, then the frame is counted.                               *)

callback_count(fc, ts) == (IF ts = 0 THEN 0 ELSE fc) + 1

callbackTauImage ==
  /\ variant = "tau"
  /\ alive
  /\ callback_count(frame_count, exp_start_ts) <= MaxFrames
  /\ frame_count' = callback_count(frame_count, exp_start_ts)
  /\ resp' = NoResp
  /\ out' = NoOut
  /\ last' = [op |-> "frame", c |-> 0, res |-> "", a |-> 0, b |-> 0]
  /\ UNCHANGED <<focus, variant, alive, etime, exp_start_ts, ss_etime, ss_running,
                 conn, heap, hosts, fds, xfer>>

-----------------------------------------------------------------------------
(* takeImage: the image request.  The environment decides which step fails  *)
(* (step), the size fstat reports (size), what the read() calls of the      *)
(* read-back return (rs) and how many frames arrive while the stacking      *)
(* variant waits (n).                                                       *)

AllImageSteps ==
  IF variant = "zwo"
  THEN {"open", "setexp", "setgain", "start", "status", "readout", "ssget",
        "encode", "fstat", "copy"}
  ELSE {"open", "ssget", "encode", "fstat", "copy"}

ImageSteps ==
  IF focus = "image" THEN AllImageSteps
  ELSE IF focus = "cmd" THEN {"open", "encode"}
  ELSE IF focus = "life" THEN {"ssget", "copy"}
  ELSE IF focus \in {"multi", "wait"} THEN AllImageSteps
  ELSE {"open", "copy"}

ReadScripts == {<< >>, <<-1>>, <<FITS_BLOCK>>, <<FITS_BLOCK, -1>>}

(* inputs that a request ending at the given step consults *)
SizesAt(step) ==
  IF step = "copy" /\ focus \in {"stream", "image", "pair"} THEN Sizes
  ELSE {FITS_BLOCK}
ReadsAt(step) ==
  IF step = "copy" /\ focus \in {"stream", "image"} THEN ReadScripts
  ELSE {<< >>}
PutsAt(step) == IF step = "ssget" THEN BOOLEAN ELSE {TRUE}
FrameCounts ==
  IF variant = "zwo" THEN {0}
  ELSE IF focus = "image" THEN 0..MaxFrames
  ELSE {1}

(* variant: a single read() instead of the loop *)
read_once(size, read_count, rs) ==
  LET count == IF rs = << >> THEN size - read_count
               ELSE Min(Head(rs), size - read_count)
  IN  IF count < 0 THEN [ok |-> FALSE, n |-> read_count]
      ELSE [ok |-> TRUE, n |-> read_count + count]

(* while (read_count < st_size) { count = read(...); if (count < 0) fail;   *)
(* read_count += count; }  A read() returns at most what was asked for;     *)
(* after the scripted results every read() returns all that remains.        *)
RECURSIVE read_loop(_, _, _)
read_loop(size, read_count, rs) ==
  IF read_count >= size THEN [ok |-> TRUE, n |-> read_count]
  ELSE LET count == IF rs = << >> THEN size - read_count
                    ELSE Min(Head(rs), size - read_count)
       IN  IF count < 0 THEN [ok |-> FALSE, n |-> read_count]
           ELSE read_loop(size, read_count + count,
                          IF rs = << >> THEN rs ELSE Tail(rs))

(* the step at which the request ends *)
image_result(step, size, rs, n) ==
  IF step = "open" THEN "open"
  ELSE IF variant = "tau" /\ (etime < MIN_ETIME \/ etime > MAX_ETIME)
  THEN "etime"
  ELSE IF variant = "tau" /\ n = 0 THEN "timeout"
  ELSE IF step # "copy" THEN step
  ELSE IF read_loop(size, 0, rs).ok THEN "pass" ELSE "read"

(* failures that return without close(fd) *)
leaks_fd(res) ==
  res \in {"setexp", "setgain", "start", "status", "readout", "etime"}

(* results reached after cinfo->image_data = cli_malloc(st_size) *)
allocates(res) == res \in {"read", "pass"}

fail_text(res) ==
  CASE res = "open" -> "Unable to save temporary file on the camera server"
    [] res = "setexp" -> "Unable to set exposure time"
    [] res = "setgain" -> "Unable to set gain"
    [] res = "start" -> "Unable to start exposure"
    [] res = "status" -> "Exposure request failed"
    [] res = "readout" -> "Unable to read out image"
    [] res = "etime" -> "Exposure time isn't set"
    [] res = "timeout" -> "Exposure timeout"
    [] res = "encode" -> "Unable to save temporary file on the guide server"
    [] res = "fstat" -> "Unable to save temporary file on the guide server"
    [] res = "read" -> "Unable to retrieve FITS image data from tmpfs"

(* cinfo after the flags that trigger data being sent are set *)
arm_stream(ci, size, buf) ==
  [ci EXCEPT !.image_data = buf, !.send_data = 1, !.data_count = 0,
             !.total_count = size]

(* variant: the failed read-back also rewinds the cursor *)
copy_failed_rewind(ci, buf) ==
  [ci EXCEPT !.image_data = buf, !.data_count = 0]

(* cinfo after a failed read-back: only the buffer pointer was assigned *)
copy_failed(ci, buf) == [ci EXCEPT !.image_data = buf]

takeImage_cinfo(ci, res, size, buf) ==
  IF res = "pass" THEN arm_stream(ci, size, buf)
  ELSE IF res = "read" THEN copy_failed(ci, buf)
  ELSE ci

(* integer written after the pass marker: "%c %ld" of file_stat.st_size *)
pass_value(size) == size

(* exp_start_ts after the request (stacking variant): set at the start of   *)
(* the wait, reset to 0 by writeFITSImage after the bias correction and by  *)
(* takeImage after writeFITSImage returned.                                 *)
image_exp_start(ts, res) ==
  IF variant # "tau" \/ res \in {"open", "etime"} THEN ts
  ELSE IF res \in {"timeout", "ssget"} THEN 1
  ELSE 0

image_frame_count(fc, res, n) ==
  IF variant # "tau" \/ res \in {"open", "etime"} THEN fc ELSE n

takeImage(c, step, size, rs, n, put) ==
  LET ci == conn[c]
      res == image_result(step, size, rs, n)
      buf == Len(heap) + 1
  IN
  /\ alive
  /\ ci.open
  /\ step \in ImageSteps
  /\ allocates(res) => Len(heap) < MaxAlloc
  /\ leaks_fd(res) => fds < MaxFds
  /\ out' = NoOut
  /\ frame_count' = image_frame_count(frame_count, res, n)
  /\ exp_start_ts' = image_exp_start(exp_start_ts, res)
  /\ fds' = IF leaks_fd(res) THEN fds + 1 ELSE fds
  /\ last' = [op |-> "image", c |-> c, res |-> res, a |-> size,
              b |-> IF allocates(res) THEN buf ELSE NULL]
  /\ UNCHANGED <<focus, variant, etime, ss_etime, hosts>>
  /\ IF res = "ssget"
     THEN (* writeFITSImage: exit(EXIT_FAILURE); cleanup() runs at exit *)
          /\ alive' = FALSE
          /\ ss_running' = IF put THEN FALSE ELSE ss_running
          /\ resp' = NoResp
          /\ UNCHANGED <<conn, heap, xfer>>
     ELSE /\ conn' = [conn EXCEPT ![c] = takeImage_cinfo(ci, res, size, buf)]
          /\ heap' = IF allocates(res)
                     THEN Append(Lose(heap, ci.image_data),
                                 HeapObj(size, read_loop(size, 0, rs).n))
                     ELSE heap
          /\ resp' = IF res = "pass"
                     THEN [c |-> c, mark |-> ".", cmd |-> "", text |-> "",
                           val |-> pass_value(size)]
                     ELSE [c |-> c, mark |-> "!", cmd |-> "IMAGE",
                           text |-> fail_text(res), val |-> NoLen]
          /\ xfer' = IF res = "pass" /\ focus = "stream"
                     THEN [xfer EXCEPT ![c] =
                             (IF ci.send_data = 0 THEN << >> ELSE @)
                             \o <<[L |-> pass_value(size), buf |-> buf,
                                   sum |-> 0, ok |-> TRUE]>>]
                     ELSE xfer
          /\ UNCHANGED <<alive, ss_running>>

(* Text of a received line.  A character is a string of length 1, a line    *)
(* or a word is a sequence of characters; 0 stands for "no position" (the   *)
(* NULL a search returns).                                                  *)

Upper ==
  [a |-> "A", b |-> "B", c |-> "C", d |-> "D", e |-> "E", f |-> "F",
   g |-> "G", h |-> "H", i |-> "I", j |-> "J", k |-> "K", l |-> "L",
   m |-> "M", n |-> "N", o |-> "O", p |-> "P", q |-> "Q", r |-> "R",
   s |-> "S", t |-> "T", u |-> "U", v |-> "V", w |-> "W", x |-> "X",
   y |-> "Y", z |-> "Z"]

toupper(ch) == IF ch \in DOMAIN Upper THEN Upper[ch] ELSE ch

isspace(ch) == ch \in {" ", "\t"}

DigitVal ==
  ("0" :> 0) @@ ("1" :> 1) @@ ("2" :> 2) @@ ("3" :> 3) @@ ("4" :> 4) @@
  ("5" :> 5) @@ ("6" :> 6) @@ ("7" :> 7) @@ ("8" :> 8) @@ ("9" :> 9)

isdigit(ch) == ch \in DOMAIN DigitVal

(* the rest of a string from position i on *)
StrFrom(str, i) == SubSeq(str, i, Len(str))

(* stristr, inner loop: while the characters at sptr and pptr agree in      *)
(* upper case, advance both; the pattern is found when pptr reaches its     *)
(* end.  The terminating NUL of str differs from every pattern character.   *)
RECURSIVE stristr_match(_, _, _, _)
stristr_match(str, pattern, sptr, pptr) ==
  IF sptr > Len(str) \/ toupper(str[sptr]) # toupper(pattern[pptr])
  THEN FALSE
  ELSE IF pptr = Len(pattern) THEN TRUE
  ELSE stristr_match(str, pattern, sptr + 1, pptr + 1)

(* variant: the comparison is case sensitive *)
RECURSIVE stristr_match_exact(_, _, _, _)
stristr_match_exact(str, pattern, sptr, pptr) ==
  IF sptr > Len(str) \/ str[sptr] # pattern[pptr]
  THEN FALSE
  ELSE IF pptr = Len(pattern) THEN TRUE
  ELSE stristr_match_exact(str, pattern, sptr + 1, pptr + 1)

(* stristr, "find start of pattern in string": advance start while the      *)
(* character differs from the first of the pattern; NULL as soon as the     *)
(* rest is shorter than the pattern.                                        *)
RECURSIVE stristr_skip(_, _, _)
stristr_skip(str, pattern, start) ==
  IF start > Len(str) \/ toupper(str[start]) # toupper(pattern[1])
  THEN IF Len(str) - start < Len(pattern) THEN 0
       ELSE stristr_skip(str, pattern, start + 1)
  ELSE start

(* stristr, outer loop: for (start = str; slen >= plen; start++, slen--) *)
RECURSIVE stristr_from(_, _, _)
stristr_from(str, pattern, start) ==
  IF Len(str) - start + 1 < Len(pattern) THEN 0
  ELSE LET s == stristr_skip(str, pattern, start)
       IN  IF s = 0 THEN 0
           ELSE IF stristr_match(str, pattern, s, 1) THEN s
           ELSE stristr_from(str, pattern, s + 1)

(* position of the first occurrence of pattern in str, letter case ignored *)
stristr(str, pattern) == stristr_from(str, pattern, 1)

(* strcasecmp(a, b) == 0 *)
strcasecmp0(a, b) ==
  /\ Len(a) = Len(b)
  /\ \A i \in 1..Len(a) : toupper(a[i]) = toupper(b[i])

(* variant: strcmp(a, b) == 0 *)
strcmp0(a, b) == a = b

(* strchr(str, ch): position of the first ch, 0 if there is none *)
strchr(str, ch) ==
  IF \E i \in 1..Len(str) : str[i] = ch
  THEN CHOOSE i \in 1..Len(str) :
         str[i] = ch /\ \A j \in 1..(i - 1) : str[j] # ch
  ELSE 0

(* ltrim: advance past leading whitespace *)
RECURSIVE ltrim(_)
ltrim(str) ==
  IF str # << >> /\ isspace(Head(str)) THEN ltrim(Tail(str)) ELSE str

(* rtrim: cut trailing whitespace *)
RECURSIVE rtrim(_)
rtrim(str) ==
  IF str # << >> /\ isspace(str[Len(str)])
  THEN rtrim(SubSeq(str, 1, Len(str) - 1)) ELSE str

trim(str) == rtrim(ltrim(str))

(* the words of a string: maximal runs of characters other than blanks *)
RECURSIVE SplitWords(_)
SplitWords(str) ==
  LET t == ltrim(str)
      e == IF \E i \in 1..Len(t) : isspace(t[i])
           THEN CHOOSE i \in 1..Len(t) :
                  isspace(t[i]) /\ \A j \in 1..(i - 1) : ~isspace(t[j])
           ELSE Len(t) + 1
  IN  IF t = << >> THEN << >>
      ELSE <<SubSeq(t, 1, e - 1)>> \o SplitWords(StrFrom(t, e))

(* cli_argv_quoted(&cargc, p): the arguments in split form (the sample      *)
(* lines carry no quotes)                                                   *)
cli_argv_quoted(str) == SplitWords(str)

-----------------------------------------------------------------------------
(* Numbers in text: atoi and atof / strtod of the C library *)

(* length of the run of digits of w that starts at position i *)
RECURSIVE DigitRun(_, _)
DigitRun(w, i) ==
  IF i <= Len(w) /\ isdigit(w[i]) THEN 1 + DigitRun(w, i + 1) ELSE 0

(* position of the first digit after an optional sign *)
SignEnd(w) == IF w # << >> /\ w[1] \in {"+", "-"} THEN 2 ELSE 1
IsNeg(w) == w # << >> /\ w[1] = "-"

(* the digits w[i..j] as a 32-bit pattern in two 16-bit halves, with fits:  *)
(* the number is at most INT_MAX                                            *)
RECURSIVE Digits32(_, _, _, _)
Digits32(w, i, j, acc) ==
  IF i > j THEN acc
  ELSE LET lo == acc.lo * 10 + DigitVal[w[i]]
           hi == acc.hi * 10 + lo \div 65536
       IN  Digits32(w, i + 1, j,
                    [hi |-> hi % 65536, lo |-> lo % 65536,
                     fits |-> acc.fits /\ hi < 32768])

(* the 32-bit pattern read as an int *)
AsInt(r) ==
  IF r.hi >= 32768 THEN (r.hi - 65536) * 65536 + r.lo ELSE r.hi * 65536 + r.lo

(* atoi(w): the leading integer of w, 0 if there is none.  A number that    *)
(* does not fit an int is undefined behaviour: with a 64-bit long the       *)
(* result of strtol is converted to int (the low 32 bits), with a 32-bit    *)
(* long strtol saturates.                                                   *)
atoi(w) ==
  LET i == SignEnd(w)
      r == Digits32(w, i, i + DigitRun(w, i) - 1,
                    [hi |-> 0, lo |-> 0, fits |-> TRUE])
      v == AsInt(r)
  IN  IF r.fits THEN {IF IsNeg(w) THEN -v ELSE v}
      ELSE IF IsNeg(w) THEN {IF v = INT_MIN THEN v ELSE -v, INT_MIN}
      ELSE {v, INT_MAX}

(* the digits w[i..j] as a number, saturated at cap *)
RECURSIVE DigitsCap(_, _, _, _, _)
DigitsCap(w, i, j, acc, cap) ==
  IF i > j THEN acc
  ELSE DigitsCap(w, i + 1, j, Min(acc * 10 + DigitVal[w[i]], cap), cap)

(* seconds from which the number of quantization steps no longer fits int *)
BigSeconds == INT_MAX \div 1000 + 1
(* largest number of seconds the model keeps apart; all values above the    *)
(* upper limits behave alike                                                *)
CapSeconds == INT_MAX \div Unit - 1

(* strtod(w, &stop_at): optional sign, digits, optional point and digits    *)
(* (the sample lines carry no exponent).  v is the value in units, of       *)
(* which the first four decimals are kept; stop is the position where the   *)
(* conversion stopped.                                                      *)
strtod(w) ==
  LET i == SignEnd(w)
      n == DigitRun(w, i)
      ip == DigitsCap(w, i, i + n - 1, 0, BigSeconds)
      pt == i + n <= Len(w) /\ w[i + n] = "."
      f == IF pt THEN DigitRun(w, i + n + 1) ELSE 0
      fd == Min(f, 4)
      fr == IF fd = 0 THEN 0
            ELSE DigitsCap(w, i + n + 1, i + n + fd, 0, Unit)
                   * (IF fd = 1 THEN 1000 ELSE IF fd = 2 THEN 100
                      ELSE IF fd = 3 THEN 10 ELSE 1)
      mag == Min(ip, CapSeconds) * Unit + fr
  IN  IF n + f = 0 THEN [big |-> FALSE, v |-> 0, stop |-> 1]
      ELSE [big |-> ip >= BigSeconds,
            v |-> IF IsNeg(w) THEN -mag ELSE mag,
            stop |-> IF pt /\ (n > 0 \/ f > 0) THEN i + n + 1 + f ELSE i + n]

(* atof(w) is strtod(w, NULL) *)
atof(w) == strtod(w)

-----------------------------------------------------------------------------
(* Gain commands *)

(* outcomes of the registry write of a gain command *)
GainPuts == IF focus = "cmd" THEN BOOLEAN ELSE {TRUE}

(* integer arguments of com_gain when the line is left open *)
GainValues == IF focus = "cmd" THEN {5, MAX_GAIN + 1} ELSE {MAX_GAIN + 1}

(* variant: the upper limit is not checked *)
gain_in_range_nomax(g) == g >= MIN_GAIN

(* the range check of com_gain, negated *)
gain_in_range(g) == g >= MIN_GAIN /\ g <= MAX_GAIN

(* zwocamServ com_gain, g the result of atoi on the argument *)
com_gain(c, g, put) ==
  /\ variant = "zwo"
  /\ alive
  /\ conn[c].open
  /\ out' = NoOut
  /\ last' = [op |-> "gain", c |-> c,
              res |-> IF gain_in_range(g) THEN "pass" ELSE "fail", a |-> g,
              b |-> [gain |-> gain, ss |-> ss_gain, dev |-> dev_gain,
                     put |-> put]]
  /\ IF gain_in_range(g)
     THEN /\ gain' = g
          /\ ss_gain' = IF put THEN g ELSE ss_gain
          /\ resp' = [c |-> c, mark |-> ".", cmd |-> "gain", text |-> "",
                      val |-> g]
          /\ UNCHANGED dev_gain
     ELSE /\ resp' = [c |-> c, mark |-> "!", cmd |-> "gain",
                      text |-> "invalid value", val |-> NoLen]
          /\ UNCHANGED gvars
  /\ UNCHANGED <<focus, variant, alive, etime, frame_count, exp_start_ts,
                 ss_etime, ss_running, conn, heap, hosts, fds, xfer>>

(* words given to the gain command of taucamServ when the line is left open *)
GainWords ==
  IF focus = "cmd"
  THEN {<<"h", "i", "g", "h">>, <<"5">>}
  ELSE {<<"5">>}

GAIN_AUTO_STRING == <<"A", "U", "T", "O">>
GAIN_HIGH_STRING == <<"H", "I", "G", "H">>
GAIN_LOW_STRING == <<"L", "O", "W">>
GAIN_MANUAL_STRING == <<"M", "A", "N", "U", "A", "L">>

(* variant: the chain of comparisons leaves out MANUAL *)
gain_mode_nomanual(w) ==
  IF strcasecmp0(w, GAIN_AUTO_STRING) THEN "AUTO"
  ELSE IF strcasecmp0(w, GAIN_HIGH_STRING) THEN "HIGH"
  ELSE IF strcasecmp0(w, GAIN_LOW_STRING) THEN "LOW"
  ELSE "none"

(* the strcasecmp chain of the GAIN branch: the mode named by the word *)
gain_mode(w) ==
  IF strcasecmp0(w, GAIN_AUTO_STRING) THEN "AUTO"
  ELSE IF strcasecmp0(w, GAIN_HIGH_STRING) THEN "HIGH"
  ELSE IF strcasecmp0(w, GAIN_LOW_STRING) THEN "LOW"
  ELSE IF strcasecmp0(w, GAIN_MANUAL_STRING) THEN "MANUAL"
  ELSE "none"

(* applyGain: setGainMode on the device, then ssPutString of the name *)
applyGain(g, put) ==
  /\ dev_gain' = g
  /\ ss_gain' = IF put THEN g ELSE ss_gain

(* taucamServ client_recv, GAIN branch with one argument *)
recv_gain(c, w, put) ==
  /\ variant = "tau"
  /\ alive
  /\ conn[c].open
  /\ out' = NoOut
  /\ last' = [op |-> "gain", c |-> c,
              res |-> IF gain_mode(w) # "none" THEN "pass" ELSE "fail",
              a |-> w,
              b |-> [gain |-> gain, ss |-> ss_gain, dev |-> dev_gain,
                     put |-> put]]
  /\ IF gain_mode(w) # "none"
     THEN /\ gain' = gain_mode(w)
          /\ applyGain(gain', put)
          /\ resp' = [c |-> c, mark |-> ".", cmd |-> "GAIN", text |-> "",
                      val |-> NoLen]
     ELSE /\ resp' = [c |-> c, mark |-> "!", cmd |-> "GAIN",
                      text |-> "Invalid gain argument specified",
                      val |-> NoLen]
          /\ UNCHANGED gvars
  /\ UNCHANGED <<focus, variant, alive, etime, frame_count, exp_start_ts,
                 ss_etime, ss_running, conn, heap, hosts, fds, xfer>>

(* variant: the response is written with the pass marker *)
recv_fail_pass(c, cmd, text) ==
  /\ alive
  /\ conn[c].open
  /\ resp' = [c |-> c, mark |-> ".", cmd |-> cmd, text |-> text,
              val |-> NoLen]
  /\ out' = NoOut
  /\ last' = [op |-> "other", c |-> c, res |-> "fail", a |-> 0, b |-> 0]
  /\ UNCHANGED <<focus, variant, alive, etime, frame_count, exp_start_ts,
                 ss_etime, ss_running, conn, heap, hosts, fds, xfer>>

(* taucamServ client_recv: the fail responses of a command without or with  *)
(* the wrong number of arguments                                            *)
recv_fail(c, cmd, text) ==
  /\ alive
  /\ conn[c].open
  /\ resp' = [c |-> c, mark |-> "!", cmd |-> cmd, text |-> text,
              val |-> NoLen]
  /\ out' = NoOut
  /\ last' = [op |-> "other", c |-> c, res |-> "fail", a |-> 0, b |-> 0]
  /\ UNCHANGED <<focus, variant, alive, etime, frame_count, exp_start_ts,
                 ss_etime, ss_running, conn, heap, hosts, fds, xfer>>

-----------------------------------------------------------------------------
(* The receive hook: from the text of a line to the handler *)

IMAGE_CMD == <<"I", "M", "A", "G", "E">>
ETIME_CMD == <<"E", "T", "I", "M", "E">>
GAIN_CMD == <<"G", "A", "I", "N">>
QUIT_CMD == <<"Q", "U", "I", "T">>
BYE_CMD == <<"B", "Y", "E">>
EXIT_CMD == <<"E", "X", "I", "T">>
LOGOUT_CMD == <<"L", "O", "G", "O", "U", "T">>

(* lines a client sends *)
AllLines ==
  {<<"i", "m", "a", "g", "e">>,
   <<"I", "m", "A", "g", "E">>,
   <<" ", "I", "M", "A", "G", "E", " ">>,
   <<"g", "a", "i", "n", " ", "i", "m", "a", "g", "e">>,
   <<"t", "a", "k", "e", " ", "i", "m", "a", "g", "e", "s", " ", "n", "o", "w">>,
   <<"i", "m", "a", "g">>,
   <<"e", "x", "i", "t">>,
   <<"Q", "U", "I", "T">>,
   <<"B", "y", "e">>,
   <<"l", "o", "g", "o", "u", "t">>,
   <<"g", "a", "i", "n", " ", "5">>,
   <<"g", "a", "i", "n", " ", "5", "1", "1">>,
   <<"g", "a", "i", "n", " ", "-", "1">>,
   <<"g", "a", "i", "n", " ", "4", "2", "9", "4", "9", "6", "7", "3", "0", "1">>,
   <<"g", "a", "i", "n", " ", "a", "b", "c">>,
   <<"g", "a", "i", "n">>,
   <<"g", "a", "i", "n", " ", "5", " ", "6">>,
   <<"g", "a", "i", "n", " ", "H", "I", "G", "H">>,
   <<"g", "a", "i", "n", " ", "l", "o", "w">>,
   <<"g", "a", "i", "n", " ", "M", "a", "n", "u", "a", "l">>,
   <<"g", "a", "i", "n", " ", "a", "u", "t", "o">>,
   <<"e", "t", "i", "m", "e", " ", "2", ".", "5">>,
   <<"E", "T", "I", "M", "E", " ", "0", ".", "0", "5">>,
   <<"e", "t", "i", "m", "e", " ", "x", "y", "z">>,
   <<"e", "t", "i", "m", "e", " ", "0">>,
   <<"e", "t", "i", "m", "e">>,
   <<"e", "t", "i", "m", "e", " ", "1", " ", "2">>,
   <<"e", "t", "i", "m", "e", " ", "2", "x">>,
   <<"h", "e", "l", "l", "o">>,
   <<"e", "x", "i", "t", " ", "n", "o", "w">>,
   <<>>}

Lines == IF focus = "cmd" THEN AllLines ELSE {<<"b", "y", "e">>}

(* the command table of zwocamServ: name, number of arguments of the usage  *)
(* string, handler                                                          *)
comlist ==
  <<[name |-> <<"e", "t", "i", "m", "e">>, args |-> 1, func |-> "com_etime"],
    [name |-> <<"g", "a", "i", "n">>, args |-> 1, func |-> "com_gain"],
    [name |-> <<"e", "x", "i", "t">>, args |-> 0, func |-> "com_exit"],
    [name |-> <<"q", "u", "i", "t">>, args |-> 0, func |-> "com_exit"],
    [name |-> <<"b", "y", "e">>, args |-> 0, func |-> "com_exit"],
    [name |-> <<"l", "o", "g", "o", "u", "t">>, args |-> 0, func |-> "com_exit"]>>

(* cli_execute(buffer): the first word of the line is looked up in the      *)
(* command table without regard to letter case and the handler is called    *)
(* when the number of arguments is the one of the table; otherwise no       *)
(* handler is called and the result is not PASS.                            *)
cli_execute(line) ==
  LET words == SplitWords(line)
      hit == {i \in DOMAIN comlist :
                words # << >> /\ strcasecmp0(words[1], comlist[i].name)
                /\ Len(words) - 1 = comlist[i].args}
  IN  IF hit = {} THEN [func |-> "none", arg |-> << >>]
      ELSE [func |-> comlist[CHOOSE i \in hit : TRUE].func,
            arg |-> IF Len(words) > 1 THEN words[2] ELSE << >>]

(* com_etime: the argument record of the word s = cli_arg1(arg), m a        *)
(* result of atoi(s)                                                        *)
etime_arg(s, m) ==
  LET colon == strchr(s, ":")
      d == atof(IF colon # 0 THEN StrFrom(s, colon + 1) ELSE s)
  IN  [colon |-> colon # 0, m |-> IF colon # 0 THEN m ELSE 0,
       big |-> d.big, s |-> d.v]

(* taucamServ ETIME branch: strtod of the word; the field colon stands for  *)
(* *stop_at != '\0', the conversion stopping before the end of the word     *)
recv_etime_arg(w) ==
  LET d == strtod(w)
  IN  [colon |-> d.stop # Len(w) + 1, m |-> 0, big |-> d.big, s |-> d.v]

(* an image request, with every outcome the focus allows *)
image_request(c) ==
  \E step \in ImageSteps, n \in FrameCounts :
    \E size \in SizesAt(step), rs \in ReadsAt(step), put \in PutsAt(step) :
      takeImage(c, step, size, rs, n, put)

(* variant: the line must begin with the image token *)
is_image_zwo_prefix(line) ==
  Len(line) >= Len(IMAGE_CMD)
  /\ strcasecmp0(SubSeq(line, 1, Len(IMAGE_CMD)), IMAGE_CMD)

(* zwocamServ client_recv: stristr(buffer, IMAGE_CMD) != NULL *)
is_image_zwo(line) == stristr(line, IMAGE_CMD) # 0

(* zwocamServ client_recv *)
client_recv_zwo(c, line) ==
  IF is_image_zwo(line)
  THEN image_request(c) /\ UNCHANGED gvars
  ELSE LET r == cli_execute(line) IN
       IF r.func = "com_etime"
       THEN /\ \E m \in atoi(r.arg), put \in EtimePuts :
                 \E q \in int_cast(etime_quot(parse_etime(etime_arg(r.arg, m)))) :
                   com_etime(c, etime_arg(r.arg, m), q, put)
            /\ UNCHANGED gvars
       ELSE IF r.func = "com_gain"
       THEN \E g \in atoi(r.arg), put \in GainPuts : com_gain(c, g, put)
       ELSE IF r.func = "com_exit"
       THEN recv_exit(c) /\ UNCHANGED gvars
       ELSE recv_other(c) /\ UNCHANGED gvars

(* variant: the disconnection keywords are compared with strcmp *)
is_exit_tau_exact(buf_p) ==
  \/ strcmp0(buf_p, QUIT_CMD) \/ strcmp0(buf_p, BYE_CMD)
  \/ strcmp0(buf_p, EXIT_CMD) \/ strcmp0(buf_p, LOGOUT_CMD)

(* taucamServ client_recv: the disconnection keywords *)
is_exit_tau(buf_p) ==
  \/ strcasecmp0(buf_p, QUIT_CMD) \/ strcasecmp0(buf_p, BYE_CMD)
  \/ strcasecmp0(buf_p, EXIT_CMD) \/ strcasecmp0(buf_p, LOGOUT_CMD)

(* taucamServ client_recv, commands without parameters *)
client_recv_tau_plain(c, buf_p) ==
  IF is_exit_tau(buf_p) THEN recv_exit(c)
  ELSE IF strcasecmp0(buf_p, IMAGE_CMD) THEN image_request(c)
  ELSE IF strcasecmp0(buf_p, ETIME_CMD)
  THEN recv_fail(c, "ETIME", "Argument not specified")
  ELSE IF strcasecmp0(buf_p, GAIN_CMD)
  THEN recv_fail(c, "GAIN", "Argument not specified")
  ELSE recv_other(c)

(* taucamServ client_recv, commands with parameters: cmd the text before    *)
(* the first blank, cargv the arguments after it                            *)
client_recv_tau_args(c, cmd, cargv) ==
  IF strcasecmp0(cmd, ETIME_CMD)
  THEN /\ UNCHANGED gvars
       /\ IF Len(cargv) # 1
          THEN recv_fail(c, "ETIME", "Invalid argument specified")
          ELSE \E put \in EtimePuts :
                 recv_etime(c, recv_etime_arg(cargv[1]), put)
  ELSE IF strcasecmp0(cmd, GAIN_CMD)
  THEN IF Len(cargv) # 1
       THEN recv_fail(c, "GAIN", "Invalid argument specified")
            /\ UNCHANGED gvars
       ELSE \E put \in GainPuts : recv_gain(c, cargv[1], put)
  ELSE recv_other(c) /\ UNCHANGED gvars

(* taucamServ client_recv *)
client_recv_tau(c, line) ==
  LET buf_p == trim(line)
      p == strchr(buf_p, " ")
  IN  IF p = 0
      THEN client_recv_tau_plain(c, buf_p) /\ UNCHANGED gvars
      ELSE client_recv_tau_args(c, SubSeq(buf_p, 1, p - 1),
                                cli_argv_quoted(StrFrom(buf_p, p + 1)))

(* the receive hook on the line a client sent *)
client_recv(c, line) ==
  /\ rx' = line
  /\ IF variant = "zwo" THEN client_recv_zwo(c, line)
     ELSE client_recv_tau(c, line)

Next ==
  \/ /\ \E c \in ActiveConns : client_add(c)
     /\ UNCHANGED gvars /\ rx' = NoLine /\ UNCHANGED <<svars, mtx, lvars, qvars>>
  \/ /\ \E c \in ActiveConns : client_del(c)
     /\ UNCHANGED gvars /\ rx' = NoLine /\ UNCHANGED <<svars, mtx, lvars, qvars>>
  \/ /\ \E c \in ActiveConns : client_send_binary(c)
     /\ UNCHANGED gvars /\ rx' = NoLine /\ UNCHANGED <<svars, mtx, lvars, qvars>>
  \/ /\ \E c \in ActiveConns, arg \in EtimeArgs, put \in EtimePuts :
          \E q \in int_cast(etime_quot(parse_etime(arg))) :
            com_etime(c, arg, q, put)
     /\ UNCHANGED gvars /\ rx' = NoLine /\ UNCHANGED <<svars, mtx, lvars, qvars>>
  \/ /\ \E c \in ActiveConns, arg \in EtimeArgs, put \in EtimePuts :
          recv_etime(c, arg, put)
     /\ UNCHANGED gvars /\ rx' = NoLine /\ UNCHANGED <<svars, mtx, lvars, qvars>>
  \/ /\ \E c \in ActiveConns, g \in GainValues, put \in GainPuts :
          com_gain(c, g, put)
     /\ rx' = NoLine /\ UNCHANGED <<svars, mtx, lvars, qvars>>
  \/ /\ \E c \in ActiveConns, w \in GainWords, put \in GainPuts :
          recv_gain(c, w, put)
     /\ rx' = NoLine /\ UNCHANGED <<svars, mtx, lvars, qvars>>
  \/ /\ \E c \in ActiveConns : recv_exit(c)
     /\ UNCHANGED gvars /\ rx' = NoLine /\ UNCHANGED <<svars, mtx, lvars, qvars>>
  \/ /\ \E c \in ActiveConns : recv_other(c)
     /\ UNCHANGED gvars /\ rx' = NoLine /\ UNCHANGED <<svars, mtx, lvars, qvars>>
  \/ /\ \E c \in ActiveConns : image_request(c)
     /\ UNCHANGED gvars /\ rx' = NoLine /\ UNCHANGED <<svars, mtx, lvars, qvars>>
  \/ /\ callbackTauImage
     /\ UNCHANGED gvars /\ rx' = NoLine /\ UNCHANGED <<svars, mtx, lvars, qvars>>
  \/ /\ \E c \in ActiveConns, line \in Lines : client_recv(c, line)
     /\ UNCHANGED <<svars, mtx, lvars, qvars>>

-----------------------------------------------------------------------------
(* Stacking at statement granularity (taucamServ and taucamLocal): the      *)
(* foreground thread inside takeImage and the capture thread inside         *)
(* callbackTauImage, one action per stretch of code between two accesses    *)
(* to the shared frame store.  A section between mtx.lock() and             *)
(* mtx.unlock() is one action; the capture thread runs one callback at a    *)
(* time.                                                                    *)

(* frames the camera delivers: bitmap.data, width * height pixels *)
Bitmaps ==
  IF focus \in {"multi", "wait"} THEN {<<USHRT_MAX>>}
  ELSE {<<0, USHRT_MAX>>, <<USHRT_MAX, 0>>, <<USHRT_MAX>>}

ShotLimit == IF variant = "local" THEN Min(LOCAL_SHOTS, MaxShots) ELSE MaxShots

(* variant: the contents are left as they are *)
Zeroed_keep(stack) == stack

(* memset(stack_data, 0, width * height * sizeof(int)) *)
Zeroed(stack) == [i \in 1..Len(stack) |-> 0]

(* ELEM_SWAP(arr[i * m], arr[j * m]); C index k is position k + 1 *)
ELEM_SWAP(arr, i, j, m) ==
  [arr EXCEPT ![i * m + 1] = arr[j * m + 1], ![j * m + 1] = arr[i * m + 1]]

(* the comparison left out: the two elements stay where they are *)
swap_if_greater_never(arr, i, j, m) == arr

(* if (arr[i * m] > arr[j * m]) ELEM_SWAP(arr[i * m], arr[j * m]) *)
swap_if_greater(arr, i, j, m) ==
  IF arr[i * m + 1] > arr[j * m + 1] THEN ELEM_SWAP(arr, i, j, m) ELSE arr

(* do ll++; while (arr[low * m] > arr[ll * m]); *)
RECURSIVE median_ll(_, _, _, _)
median_ll(arr, low, ll, m) ==
  LET l == ll + 1
  IN  IF arr[low * m + 1] > arr[l * m + 1] THEN median_ll(arr, low, l, m)
      ELSE l

(* do hh--; while (arr[hh * m] > arr[low * m]); *)
RECURSIVE median_hh(_, _, _, _)
median_hh(arr, low, hh, m) ==
  LET h == hh - 1
  IN  IF arr[h * m + 1] > arr[low * m + 1] THEN median_hh(arr, low, h, m)
      ELSE h

(* nibble from each end towards the middle, swapping items when stuck *)
RECURSIVE median_nibble(_, _, _, _, _)
median_nibble(arr, low, ll, hh, m) ==
  LET l == median_ll(arr, low, ll, m)
      h == median_hh(arr, low, hh, m)
  IN  IF h < l THEN [arr |-> arr, ll |-> l, hh |-> h]
      ELSE median_nibble(ELEM_SWAP(arr, l, h, m), low, l, h, m)

(* the for (;;) loop of medianCalculation over the active partition *)
RECURSIVE median_loop(_, _, _, _, _)
median_loop(arr, low, high, median, m) ==
  IF high <= low THEN [val |-> arr[median * m + 1], arr |-> arr]
  ELSE IF high = low + 1
  THEN LET a == swap_if_greater(arr, low, high, m)
       IN  [val |-> a[median * m + 1], arr |-> a]
  ELSE LET middle == (low + high) \div 2
           a1 == swap_if_greater(arr, middle, high, m)
           a2 == swap_if_greater(a1, low, high, m)
           a3 == swap_if_greater(a2, middle, low, m)
           a4 == ELEM_SWAP(a3, middle, low + 1, m)
           nb == median_nibble(a4, low, low + 1, high, m)
           a5 == ELEM_SWAP(nb.arr, low, nb.hh, m)
       IN  median_loop(a5, IF nb.hh <= median THEN nb.ll ELSE low,
                       IF nb.hh >= median THEN nb.hh - 1 ELSE high, median, m)

(* n /= m; low = 0; high = n - 1; median = (low + high) / 2 *)
medianCalculation(arr, n, m) ==
  median_loop(arr, 0, n \div m - 1, Trunc(n \div m - 1, 2), m)

(* the loop of the callback under the mutex: taucamServ stores the pixel,   *)
(* taucamLocal adds the pixel less the median of the frame                  *)
accumulate(stack, bitmap, median) ==
  IF variant = "local"
  THEN [i \in 1..Len(stack) |-> stack[i] + bitmap[i] - median]
  ELSE [i \in 1..Len(stack) |-> bitmap[i]]

(* min_val = 65535; for (...) if (stack_data[i] < min_val) min_val = ... *)
RECURSIVE min_scan(_, _, _)
min_scan(stack, i, min_val) ==
  IF i > Len(stack) THEN min_val
  ELSE min_scan(stack, i + 1, IF stack[i] < min_val THEN stack[i] ELSE min_val)

min_val_of(stack) == min_scan(stack, 1, USHRT_MAX)

(* variant: the difference is stored without the test against 65535 *)
bias_pixel_unclamped(v, min_val) ==
  IF variant = "local" THEN Trunc(4 * (v - min_val), 10) % (USHRT_MAX + 1)
  ELSE (v - min_val) % (USHRT_MAX + 1)

(* one pixel of the output buffer (unsigned short): the difference, clamped *)
(* above; taucamLocal scales the unclamped difference by 0.4                *)
bias_pixel(v, min_val) ==
  IF v - min_val > USHRT_MAX THEN USHRT_MAX
  ELSE IF variant = "local" THEN Trunc(4 * (v - min_val), 10) % (USHRT_MAX + 1)
  ELSE (v - min_val) % (USHRT_MAX + 1)

bias_correct(stack) ==
  [i \in 1..Len(stack) |-> bias_pixel(stack[i], min_val_of(stack))]

(* the reading of the clock changes *)
tick ==
  /\ alive
  /\ now + ClockStep <= ClockStart + MaxTicks * ClockStep
  /\ now' = now + ClockStep
  /\ resp' = NoResp
  /\ out' = NoOut
  /\ last' = [op |-> "tick", c |-> 0, res |-> "", a |-> 0, b |-> 0]
  /\ mtx' = FALSE /\ UNCHANGED lvars
  /\ UNCHANGED qvars
  /\ UNCHANGED <<focus, variant, alive, etime, frame_count, exp_start_ts,
                 ss_etime, ss_running, conn, heap, hosts, fds, xfer, gvars,
                 rx, stop_ts, pc, cb, stack_data, image, stackcnt, shots, win>>

(* variant: no frame is taken for a frame of another size *)
size_differs_never(bitmap, stack) == FALSE

(* (bitmap.width != serv_info->width) || (bitmap.height != ...->height):   *)
(* a frame is a row of pixels, its size is its length                       *)
size_differs(bitmap, stack) == Len(bitmap) # Len(stack)

(* callbackTauImage up to the test of exp_start_ts: the first frame         *)
(* allocates the accumulator, a frame of another size is dropped            *)
callback_enter(bitmap) ==
  LET stack == IF stack_data = NoStack THEN Zeroed(bitmap) ELSE stack_data
  IN
  /\ alive
  /\ variant # "zwo"
  /\ cb.pc = "idle"
  /\ frame_count < MaxStackFrames
  /\ stack_data' = stack
  /\ frame_count' = IF stack_data = NoStack THEN 0 ELSE frame_count
  /\ cb' = IF size_differs(bitmap, stack) THEN cb_idle
           ELSE [pc |-> IF exp_start_ts = 0 THEN "reset" ELSE "lock",
                 bitmap |-> bitmap, reset |-> FALSE]
  /\ resp' = NoResp
  /\ out' = NoOut
  /\ last' = [op |-> "frame", c |-> 0,
              res |-> IF size_differs(bitmap, stack) THEN "dropped" ELSE "",
              a |-> 0, b |-> 0]
  /\ mtx' = FALSE /\ UNCHANGED lvars
  /\ UNCHANGED qvars
  /\ UNCHANGED <<focus, variant, alive, etime, exp_start_ts, ss_etime,
                 ss_running, conn, heap, hosts, fds, xfer, gvars, rx, now,
                 stop_ts, pc, image, stackcnt, shots, win>>

(* variant: the callback leaves the frame count *)
reset_frame_count_keep(fc) == fc

(* serv_info->frame_count = 0 of the callback *)
reset_frame_count(fc) == 0

(* if (exp_start_ts == 0) { frame_count = 0; memset(stack_data, 0, ...) },  *)
(* after the test found no exposure active; the mutex is not held           *)
callback_reset ==
  /\ alive
  /\ cb.pc = "reset"
  /\ frame_count' = reset_frame_count(frame_count)
  /\ stack_data' = Zeroed(stack_data)
  /\ cb' = [cb EXCEPT !.pc = "lock", !.reset = TRUE]
  /\ resp' = NoResp
  /\ out' = NoOut
  /\ last' = [op |-> "frame", c |-> 0, res |-> "reset", a |-> 0, b |-> 0]
  /\ mtx' = FALSE /\ UNCHANGED lvars
  /\ UNCHANGED qvars
  /\ UNCHANGED <<focus, variant, alive, etime, exp_start_ts, ss_etime,
                 ss_running, conn, heap, hosts, fds, xfer, gvars, rx, now,
                 stop_ts, pc, image, stackcnt, shots, win>>

(* the median of a copy of the frame, then under the mutex the loop over    *)
(* the pixels and frame_count++                                             *)
callback_accumulate ==
  LET n == Len(stack_data)
      median == medianCalculation(cb.bitmap, n, 1).val
  IN
  /\ alive
  /\ cb.pc = "lock"
  /\ stack_data' = accumulate(stack_data, cb.bitmap, median)
  /\ frame_count' = frame_count + 1
  /\ cb' = cb_idle
  /\ win' = IF win.open THEN [win EXCEPT !.frames = Append(@, cb.bitmap)]
             ELSE win
  /\ resp' = NoResp
  /\ out' = NoOut
  /\ last' = [op |-> "frame", c |-> 0, res |-> "added", a |-> median, b |-> 0]
  /\ mtx' = TRUE /\ UNCHANGED lvars
  /\ UNCHANGED qvars
  /\ UNCHANGED <<focus, variant, alive, etime, exp_start_ts, ss_etime,
                 ss_running, conn, heap, hosts, fds, xfer, gvars, rx, now,
                 stop_ts, pc, image, stackcnt, shots>>

(* variant: the exposure start leaves the frame count *)
start_frame_count_keep(fc) == fc

(* serv_info->frame_count = 0 of the exposure start *)
start_frame_count(fc) == 0

(* the response of a request that failed *)
image_fail(c, res) ==
  [c |-> c, mark |-> "!", cmd |-> "IMAGE", text |-> fail_text(res),
   val |-> NoLen]

(* variant: a line is dispatched while an earlier hook has not returned *)
loop_idle_any == TRUE

(* sockserv_run calls the receive hook for the next line only after the     *)
(* hook it is in has returned: takeImage runs inside client_recv, so no     *)
(* request is being handled when one starts                                 *)
loop_idle == pc = "idle" /\ acq = 0

(* takeImage from open() to the mtx.unlock() of the exposure start: under   *)
(* the mutex the count and the accumulator are zeroed and the start and     *)
(* stop timestamps are taken                                                *)
takeImage_start(c, opened) ==
  LET res == IF ~opened THEN "open"
             ELSE IF etime < MIN_ETIME \/ etime > MAX_ETIME THEN "etime"
             ELSE "wait"
  IN
  /\ alive
  /\ c \in req \/ focus # "multi"
  /\ loop_idle
  /\ variant # "zwo"
  /\ variant = "tau" => conn[c].open
  /\ shots < ShotLimit
  /\ leaks_fd(res) => fds < MaxFds
  /\ shots' = shots + 1
  /\ fds' = IF leaks_fd(res) THEN fds + 1 ELSE fds
  /\ out' = NoOut
  /\ last' = [op |-> "image", c |-> c, res |-> res, a |-> 0, b |-> 0]
  /\ IF res = "wait"
     THEN /\ frame_count' = start_frame_count(frame_count)
          /\ stack_data' = Zeroed(stack_data)
          /\ exp_start_ts' = now
          /\ stop_ts' = now + etime
          /\ pc' = "wait"
          /\ win' = [open |-> TRUE, frames |-> << >>]
          /\ resp' = NoResp
     ELSE /\ resp' = image_fail(c, res)
          /\ UNCHANGED <<frame_count, stack_data, exp_start_ts, stop_ts, pc,
                         win>>
  /\ mtx' = (res = "wait") /\ UNCHANGED lvars
  /\ req' = req \ {c}
  /\ acq' = IF res = "wait" THEN c ELSE 0
  /\ UNCHANGED calls
  /\ UNCHANGED <<focus, variant, alive, etime, ss_etime, ss_running, conn,
                 heap, hosts, xfer, gvars, rx, now, cb, image, stackcnt>>

(* variant: the timeout does not look at the frame count *)
exposure_timed_out_any ==
  exp_start_ts + EXPOSE_TIMEOUT < now

(* (frame_count == 0) && (exp_start_ts + EXPOSE_TIMEOUT < getClockTime()) *)
exposure_timed_out ==
  frame_count = 0 /\ exp_start_ts + EXPOSE_TIMEOUT < now

(* the wait loop finds the exposure timed out: the fail response,           *)
(* close(fd), return                                                        *)
takeImage_timeout(c) ==
  /\ alive
  /\ acq = c
  /\ pc = "wait"
  /\ exposure_timed_out
  /\ pc' = "idle"
  /\ win' = [win EXCEPT !.open = FALSE]
  /\ resp' = image_fail(c, "timeout")
  /\ out' = NoOut
  /\ last' = [op |-> "image", c |-> c, res |-> "timeout", a |-> 0, b |-> 0]
  /\ mtx' = FALSE /\ UNCHANGED lvars
  /\ acq' = 0
  /\ UNCHANGED <<req, calls>>
  /\ UNCHANGED <<focus, variant, alive, etime, frame_count, exp_start_ts,
                 ss_etime, ss_running, conn, heap, hosts, fds, xfer, gvars,
                 rx, now, stop_ts, cb, stack_data, image, stackcnt, shots>>

(* variant: the loop goes on only while both conditions hold *)
still_waiting_both == now < stop_ts /\ frame_count = 0

(* while ((getClockTime() < stop_ts) || (frame_count == 0)) *)
still_waiting == now < stop_ts \/ frame_count = 0

(* the wait loop ends: taucamServ goes on to writeFITSImage, taucamLocal    *)
(* to the bias correction                                                   *)
takeImage_waited(c) ==
  /\ alive
  /\ acq = c
  /\ pc = "wait"
  /\ ~exposure_timed_out
  /\ ~still_waiting
  /\ pc' = IF variant = "local" THEN "bias" ELSE "header"
  /\ resp' = NoResp
  /\ out' = NoOut
  /\ last' = [op |-> "image", c |-> c, res |-> "waited", a |-> 0, b |-> 0]
  /\ mtx' = FALSE /\ UNCHANGED lvars
  /\ UNCHANGED qvars
  /\ UNCHANGED <<focus, variant, alive, etime, frame_count, exp_start_ts,
                 ss_etime, ss_running, conn, heap, hosts, fds, xfer, gvars,
                 rx, now, stop_ts, cb, stack_data, image, stackcnt, shots,
                 win>>

HeaderSteps == {"ssget", "encode", "header"}

(* writeFITSImage of taucamServ up to mtx.lock(): the registry reads, the   *)
(* test that there is an image, the header with STACKCNT, fh_write; and     *)
(* what takeImage does when it returns FAIL                                 *)
writeFITSImage_header(c, step, put) ==
  LET res == IF step = "ssget" THEN "ssget"
             ELSE IF frame_count = 0 \/ stack_data = NoStack THEN "encode"
             ELSE step
  IN
  /\ alive
  /\ acq = c
  /\ variant = "tau"
  /\ pc = "header"
  /\ step \in HeaderSteps
  /\ out' = NoOut
  /\ last' = [op |-> "image", c |-> c, res |-> res, a |-> 0, b |-> 0]
  /\ alive' = (res # "ssget")
  /\ ss_running' = IF res = "ssget" /\ put THEN FALSE ELSE ss_running
  /\ resp' = IF res = "encode" THEN image_fail(c, res) ELSE NoResp
  /\ exp_start_ts' = IF res = "encode" THEN 0 ELSE exp_start_ts
  /\ stackcnt' = IF res = "header" THEN frame_count ELSE stackcnt
  /\ pc' = IF res = "header" THEN "bias" ELSE "idle"
  /\ win' = IF res = "header" THEN win ELSE [win EXCEPT !.open = FALSE]
  /\ mtx' = FALSE /\ UNCHANGED lvars
  /\ acq' = IF res = "header" THEN acq ELSE 0
  /\ UNCHANGED <<req, calls>>
  /\ UNCHANGED <<focus, variant, etime, frame_count, ss_etime, conn, heap,
                 hosts, fds, xfer, gvars, rx, now, stop_ts, cb, stack_data,
                 image, shots>>

(* the section under the mutex that builds the output buffer: the minimum   *)
(* of the accumulator, the corrected pixels, exp_start_ts = 0               *)
bias_section(c) ==
  /\ alive
  /\ acq = c
  /\ pc = "bias"
  /\ image' = bias_correct(stack_data)
  /\ exp_start_ts' = 0
  /\ pc' = "write"
  /\ win' = [win EXCEPT !.open = FALSE]
  /\ resp' = NoResp
  /\ out' = NoOut
  /\ last' = [op |-> "image", c |-> c, res |-> "bias", a |-> frame_count,
              b |-> min_val_of(stack_data)]
  /\ mtx' = TRUE /\ UNCHANGED lvars
  /\ UNCHANGED qvars
  /\ UNCHANGED <<focus, variant, alive, etime, frame_count, ss_etime,
                 ss_running, conn, heap, hosts, fds, xfer, gvars, rx, now,
                 stop_ts, cb, stack_data, stackcnt, shots>>

WriteSteps == {"encode", "fstat", "copy"}

(* the rest of the request: the image data is written (taucamLocal writes   *)
(* the header with STACKCNT first), exp_start_ts = 0, fstat, and in         *)
(* taucamServ the read-back into the connection's buffer and the pass       *)
(* response                                                                 *)
takeImage_finish(c, step) ==
  LET ci == conn[c]
      res == IF step = "copy" THEN "pass" ELSE step
      buf == Len(heap) + 1
      copies == variant = "tau" /\ res = "pass"
  IN
  /\ alive
  /\ acq = c
  /\ pc = "write"
  /\ step \in WriteSteps
  /\ copies => Len(heap) < MaxAlloc
  /\ pc' = "idle"
  /\ exp_start_ts' = 0
  /\ stackcnt' = IF variant = "local" /\ res # "encode" THEN frame_count
                 ELSE stackcnt
  /\ conn' = IF copies
             THEN [conn EXCEPT ![c] = arm_stream(ci, FITS_BLOCK, buf)]
             ELSE conn
  /\ heap' = IF copies
             THEN Append(Lose(heap, ci.image_data),
                         HeapObj(FITS_BLOCK, FITS_BLOCK))
             ELSE heap
  /\ resp' = IF res # "pass" THEN image_fail(c, res)
             ELSE IF variant = "local" THEN NoResp
             ELSE [c |-> c, mark |-> ".", cmd |-> "", text |-> "",
                   val |-> pass_value(FITS_BLOCK)]
  /\ out' = NoOut
  /\ last' = [op |-> "image", c |-> c, res |-> res, a |-> FITS_BLOCK,
              b |-> IF copies THEN buf ELSE NULL]
  /\ mtx' = FALSE /\ UNCHANGED lvars
  /\ acq' = 0
  /\ UNCHANGED <<req, calls>>
  /\ UNCHANGED <<focus, variant, alive, etime, frame_count, ss_etime,
                 ss_running, hosts, fds, xfer, gvars, rx, now, stop_ts, cb,
                 stack_data, image, shots, win>>

NextStack ==
  \/ /\ variant = "tau"
     /\ \E c \in ActiveConns : client_add(c)
     /\ UNCHANGED gvars /\ rx' = NoLine /\ UNCHANGED svars /\ mtx' = FALSE
     /\ UNCHANGED <<lvars, qvars>>
  \/ /\ pc = "idle"
     /\ \E c \in ActiveConns, arg \in EtimeArgs, put \in EtimePuts :
          recv_etime(c, arg, put)
     /\ UNCHANGED gvars /\ rx' = NoLine /\ UNCHANGED svars /\ mtx' = FALSE
     /\ UNCHANGED <<lvars, qvars>>
  \/ tick
  \/ \E bitmap \in Bitmaps : callback_enter(bitmap)
  \/ callback_reset
  \/ callback_accumulate
  \/ \E c \in ActiveConns, opened \in BOOLEAN : takeImage_start(c, opened)
  \/ \E c \in ActiveConns : takeImage_timeout(c)
  \/ \E c \in ActiveConns : takeImage_waited(c)
  \/ \E c \in ActiveConns, step \in HeaderSteps, put \in BOOLEAN :
       writeFITSImage_header(c, step, put)
  \/ \E c \in ActiveConns : bias_section(c)
  \/ \E c \in ActiveConns, step \in WriteSteps : takeImage_finish(c, step)

-----------------------------------------------------------------------------
(* Streaming claims *)

Armed(ci) == ci.send_data # 0

(* C1: for every successful image exchange declaring length L, the chunk    *)
(* lengths reported from that response until the terminating zero-length    *)
(* chunk sum to exactly L and the chunks are consecutive slices of that     *)
(* payload starting at offset 0.                                            *)
C1_ChunksSumToDeclared ==
  (last.op = "send" /\ last.res = "final") =>
    \A i \in DOMAIN xfer[last.c] :
      xfer[last.c][i].sum = xfer[last.c][i].L /\ xfer[last.c][i].ok

(* C2: an armed hook with cursor < total reports a chunk of 1 to            *)
(* SEND_BUF_SIZE bytes; with cursor = total it reports length 0 and         *)
(* disarms; a disarmed hook reports nothing and stays disarmed, so an end   *)
(* marker is never followed by another report of the same stream.           *)
C2_ChunkBoundsAndEndMarker ==
  [][\A c \in Conns :
       (last'.op = "send" /\ last'.c = c) =>
         /\ (Armed(conn[c]) /\ conn[c].data_count < conn[c].total_count
             /\ out'.len # NoLen)
              => (out'.len >= 1 /\ out'.len <= SEND_BUF_SIZE)
         /\ (Armed(conn[c]) /\ conn[c].data_count < conn[c].total_count
             /\ alive')
              => out'.len # NoLen
         /\ (Armed(conn[c]) /\ conn[c].data_count = conn[c].total_count)
              => (out'.len = 0 /\ ~Armed(conn'[c]))
         /\ ~Armed(conn[c])
              => (out'.len = NoLen /\ ~Armed(conn'[c]))
         /\ (last.op = "send" /\ last.c = c /\ last.res = "final")
              => out'.len = NoLen]_vars

(* an end marker reported after a stream of more than one chunk *)
C2_Witness ==
  /\ last.op = "send" /\ last.res = "final" /\ out.len = 0
  /\ xfer[last.c] # << >>
  /\ xfer[last.c][1].sum > SEND_BUF_SIZE

(* C3: streaming becomes armed only in an image request that answers with   *)
(* the pass marker, and an image request that answers with the fail marker  *)
(* leaves send_data, data_count and total_count of every connection as      *)
(* they were.                                                               *)
C3_ArmedOnlyByPass ==
  [][/\ \A c \in Conns :
          (~Armed(conn[c]) /\ Armed(conn'[c])) =>
            (last'.op = "image" /\ last'.c = c /\ last'.res = "pass"
             /\ resp'.mark = ".")
     /\ (last'.op = "image" /\ resp'.mark = "!") =>
          \A c \in Conns :
            /\ conn'[c].send_data = conn[c].send_data
            /\ conn'[c].data_count = conn[c].data_count
            /\ conn'[c].total_count = conn[c].total_count]_vars

(* a read-back failure on a connection whose stream is under way *)
C3_Witness ==
  /\ last.op = "image" /\ last.res = "read" /\ resp.mark = "!"
  /\ Armed(conn[last.c]) /\ conn[last.c].data_count > 0

(* C4: on a successful image request the integer of the pass response is    *)
(* the size fstat reported, the number of bytes copied into the owned       *)
(* buffer and total_count; the cursor is 0 and streaming is armed.          *)
C4_PassValueIsLength ==
  (last.op = "image" /\ last.res = "pass") =>
    /\ resp.mark = "." /\ resp.c = last.c
    /\ resp.val = last.a
    /\ conn[last.c].image_data = last.b
    /\ heap[last.b].frees = 0
    /\ heap[last.b].size = resp.val
    /\ heap[last.b].filled = resp.val
    /\ conn[last.c].total_count = resp.val
    /\ conn[last.c].data_count = 0
    /\ conn[last.c].send_data = 1

(* a pass response for a file that took more than one read() *)
C4_Witness ==
  /\ last.op = "image" /\ last.res = "pass"
  /\ resp.val = 2 * FITS_BLOCK

(* C5: 0 <= data_count <= total_count for every connection in every state *)
C5_CursorWithinTotal ==
  \A c \in Conns :
    conn[c].data_count >= 0 /\ conn[c].data_count <= conn[c].total_count

(* a stream under way: part of the payload sent, part still to send *)
C5_Witness ==
  \E c \in Conns :
    /\ Armed(conn[c]) /\ last.op = "send" /\ last.c = c
    /\ conn[c].data_count > 0
    /\ conn[c].data_count < conn[c].total_count

(* C6 as stated: no operation on a connection lowers data_count *)
C6_CursorNeverLowered ==
  [][\A c \in Conns :
       (conn[c].open /\ conn'[c].open) =>
         conn'[c].data_count >= conn[c].data_count]_vars

(* C6 amended: data_count is lowered only by the end-of-stream invocation   *)
(* of the send hook and by a successful image request, which set it to 0;   *)
(* every other operation leaves it unchanged or raises it.                  *)
C6_CursorLoweredOnlyByReset ==
  [][\A c \in Conns :
       (conn[c].open /\ conn'[c].open
        /\ conn'[c].data_count < conn[c].data_count) =>
         /\ conn'[c].data_count = 0
         /\ last'.c = c
         /\ \/ last'.op = "send" /\ last'.res = "final"
            \/ last'.op = "image" /\ last'.res = "pass"]_vars

(* the cursor back at 0 after the end marker of a delivered stream *)
C6_Witness ==
  /\ last.op = "send" /\ last.res = "final"
  /\ conn[last.c].data_count = 0
  /\ conn[last.c].total_count > 0

(* every allocated image buffer was freed at most once and, if not freed,   *)
(* is the image_data of an open connection                                  *)
BuffersAccounted ==
  \A p \in DOMAIN heap :
    /\ heap[p].frees <= 1
    /\ heap[p].frees = 0 =>
         \E c \in Conns : conn[c].open /\ conn[c].image_data = p

(* C7: every image buffer allocated for a connection is freed exactly once, *)
(* none freed twice and none leaked, also when a new image request or a     *)
(* failed read-back happens before the previous buffer was streamed out.    *)
(* (The buffer of a connection that is destroyed is the subject of C8.)     *)
C7_BufferReleasedExactlyOnce ==
  [][(last'.op # "del" /\ BuffersAccounted) => BuffersAccounted']_vars

(* C8: client_del releases the pending image buffer of the connection       *)
(* together with its hostname string.                                       *)
C8_DelReleasesBuffer ==
  (last.op = "del") =>
    /\ hosts = Cardinality({c \in Conns : conn[c].open})
    /\ last.b # NULL => heap[last.b].frees = 1

-----------------------------------------------------------------------------
(* Exposure-time claims *)

(* round to the nearest step, halves upward, then limit to [min, max] *)
ClampRound(d) ==
  IF d.big THEN tgt_max
  ELSE LET r == ((d.v + tgt_stp \div 2) \div tgt_stp) * tgt_stp
       IN  IF r > tgt_max THEN tgt_max ELSE IF r < tgt_min THEN tgt_min ELSE r

(* C9, for the etime command of com_etime: a non-zero argument v stores     *)
(* clamp(round(v)) and the response echoes the stored value after the pass  *)
(* marker; an argument of 0 leaves the stored value unchanged and echoes it.*)
C9_EtimeClampRoundEcho ==
  (last.op = "etime" /\ variant = "zwo") =>
    LET d == parse_etime(last.a) IN
    /\ resp.mark = "." /\ resp.val = etime
    /\ IF ~d.big /\ d.v = 0 THEN etime = last.b ELSE etime = ClampRound(d)

(* C10: the session exposure time lies within [min, max] and is a multiple  *)
(* of the quantization step in every state, also before any etime command.  *)
C10_EtimeInRangeQuantized ==
  alive =>
    /\ etime >= (IF variant = "zwo" THEN tgt_min ELSE MIN_ETIME)
    /\ etime <= (IF variant = "zwo" THEN tgt_max ELSE MAX_ETIME)
    /\ etime % tgt_stp = 0

-----------------------------------------------------------------------------
(* Command claims.  The helpers below state what a line says, without the   *)
(* operators of the receive hook.                                           *)

UpperWord(w) == [i \in 1..Len(w) |-> toupper(w[i])]

(* the line contains the word somewhere, letter case ignored *)
ContainsCI(line, word) ==
  \E start \in 1..(Len(line) - Len(word) + 1) :
    \A i \in 1..Len(word) : toupper(line[start + i - 1]) = word[i]

(* the line is the keyword followed by n arguments *)
IsCommand(line, word, n) ==
  LET words == SplitWords(line)
  IN  Len(words) = n + 1 /\ UpperWord(words[1]) = word

ArgOf(line) == SplitWords(line)[2]

ExitKeywords == {EXIT_CMD, QUIT_CMD, BYE_CMD, LOGOUT_CMD}

IsExitLine(line) == \E k \in ExitKeywords : IsCommand(line, k, 0)

(* the word is a decimal integer *)
IsIntWord(w) ==
  /\ DigitRun(w, SignEnd(w)) >= 1
  /\ SignEnd(w) + DigitRun(w, SignEnd(w)) = Len(w) + 1

(* the integer the word denotes, limited to MAX_GAIN + 1 in size *)
IntOfWord(w) ==
  LET m == DigitsCap(w, SignEnd(w), Len(w), 0, MAX_GAIN + 1)
  IN  IF IsNeg(w) THEN -m ELSE m

(* the word does not begin like a number *)
NotNumber(w) == ~isdigit(w[1]) /\ w[1] \notin {"+", "-", "."}

(* C11: in zwocamServ, gain with an integer outside [MIN_GAIN, MAX_GAIN]    *)
(* answers '! gain "invalid value"' and leaves the session gain and the     *)
(* registry gain unchanged; an integer inside the range becomes the session *)
(* gain, is written to the registry and is echoed after the pass marker.    *)
C11_GainRangeChecked ==
  (variant = "zwo" /\ rx # NoLine /\ ~ContainsCI(rx, IMAGE_CMD)
   /\ IsCommand(rx, GAIN_CMD, 1) /\ IsIntWord(ArgOf(rx))) =>
    LET v == IntOfWord(ArgOf(rx)) IN
    IF v >= MIN_GAIN /\ v <= MAX_GAIN
    THEN /\ resp.mark = "." /\ resp.cmd = "gain" /\ resp.val = v
         /\ gain = v
         /\ last.b.put => ss_gain = v
    ELSE /\ resp.mark = "!" /\ resp.cmd = "gain"
         /\ resp.text = "invalid value"
         /\ gain = last.b.gain
         /\ ss_gain = last.b.ss

(* C12: in taucamServ, gain with AUTO, HIGH, LOW or MANUAL in any letter    *)
(* case sets the session gain to that mode, applies it to the device,       *)
(* writes it to the registry and answers with the pass marker; any other    *)
(* word answers with the fail marker and leaves the session gain, the       *)
(* device gain mode and the registry unchanged.                             *)
C12_SymbolicGain ==
  (variant = "tau" /\ rx # NoLine /\ IsCommand(rx, GAIN_CMD, 1)) =>
    LET u == UpperWord(ArgOf(rx))
    IN  last.op = "gain" /\
        IF u \in {GAIN_AUTO_STRING, GAIN_HIGH_STRING, GAIN_LOW_STRING,
                  GAIN_MANUAL_STRING}
        THEN LET m == IF u = GAIN_AUTO_STRING THEN "AUTO"
                      ELSE IF u = GAIN_HIGH_STRING THEN "HIGH"
                      ELSE IF u = GAIN_LOW_STRING THEN "LOW" ELSE "MANUAL"
             IN  /\ resp.mark = "." /\ resp.cmd = "GAIN"
                 /\ gain = m /\ dev_gain = m
                 /\ last.b.put => ss_gain = m
        ELSE /\ resp.mark = "!"
             /\ gain = last.b.gain /\ dev_gain = last.b.dev
             /\ ss_gain = last.b.ss

(* a mode given in mixed case has been applied *)
C12_Witness ==
  /\ variant = "tau" /\ rx = <<"g", "a", "i", "n", " ", "M", "a", "n", "u", "a", "l">>
  /\ gain = "MANUAL" /\ dev_gain = "MANUAL" /\ ss_gain = "MANUAL"

(* C13: an etime command, or a gain command of the numeric-gain server,     *)
(* whose argument is not a number yields a fail response, leaves the        *)
(* connection open and changes neither the exposure time, nor the gain,     *)
(* nor the registry.                                                        *)
C13_MalformedArgumentFails ==
  (rx # NoLine /\ ~(variant = "zwo" /\ ContainsCI(rx, IMAGE_CMD))
   /\ \/ variant = "zwo" /\ IsCommand(rx, GAIN_CMD, 1)
      \/ IsCommand(rx, ETIME_CMD, 1)
   /\ NotNumber(ArgOf(rx))) =>
    /\ resp.mark = "!"
    /\ conn[last.c].open
    /\ last.op = "gain" =>
         gain = last.b.gain /\ ss_gain = last.b.ss /\ dev_gain = last.b.dev
    /\ last.op = "etime" => etime = last.b

C15_ExitKeywordsEmptyResponse ==
  [][(rx' # NoLine /\ IsExitLine(rx')) =>
       /\ resp'.mark = "" /\ resp'.text = "" /\ resp'.cmd = ""
       /\ UNCHANGED <<alive, etime, frame_count, exp_start_ts, ss_etime,
                      ss_running, conn, heap, hosts, fds, gain, ss_gain,
                      dev_gain>>]_vars

(* a keyword in upper case and one in mixed case got the empty response *)
C15_Witness ==
  /\ rx \in {<<"Q", "U", "I", "T">>, <<"B", "y", "e">>}
  /\ resp.mark = "" /\ last.op = "exit"

(* the line is a command of the server with the number of arguments the     *)
(* command takes                                                            *)
Recognised(line) ==
  \/ IsExitLine(line)
  \/ IsCommand(line, ETIME_CMD, 1)
  \/ IsCommand(line, GAIN_CMD, 1)
  \/ IF variant = "zwo" THEN ContainsCI(line, IMAGE_CMD)
     ELSE IsCommand(line, IMAGE_CMD, 0)

-----------------------------------------------------------------------------
(* Stacking claims *)

(* the accumulator after the frames of an exposure, from a zeroed one *)
RECURSIVE StackOf(_, _)
StackOf(frames, zero) ==
  IF frames = << >> THEN zero
  ELSE LET f == frames[Len(frames)]
       IN  accumulate(StackOf(SubSeq(frames, 1, Len(frames) - 1), zero), f,
                      medianCalculation(f, Len(f), 1).val)

(* C17: from the start of an exposure until its output buffer is built,     *)
(* under every interleaving of the two threads, the frame count is the      *)
(* number N of callbacks that added a frame since the start, and the        *)
(* accumulator holds those N frames and nothing else: the start zeroes      *)
(* both before any frame of the exposure is added, nothing of an earlier    *)
(* request carries over.                                                    *)
C17_WindowCountsItsFrames ==
  win.open =>
    /\ frame_count = Len(win.frames)
    /\ stack_data = StackOf(win.frames, Zeroed(stack_data))

(* the output buffer of a second request is built from two frames, after    *)
(* the first request ran *)
C17_Witness ==
  /\ last.op = "image"
  /\ last.res = "bias"
  /\ shots = 2
  /\ frame_count = 2
  /\ Len(win.frames) = 2

(* C18: after the bias correction the smallest pixel of the output buffer   *)
(* is exactly 0, whatever non-negative values the accumulator holds, also   *)
(* when every cell exceeds 65535.                                           *)
C18_MinimumPixelIsZero ==
  (last.op = "image" /\ last.res = "bias") =>
    /\ \A i \in 1..Len(image) : image[i] >= 0
    /\ \E i \in 1..Len(image) : image[i] = 0

C20_TimeoutResetsStart ==
  (last.op = "image" /\ last.res = "timeout") => exp_start_ts = 0

(* the frame store: the accumulator, the frame count, the exposure start *)
FrameStore == <<stack_data, frame_count, exp_start_ts>>

(* C21: every step of either thread that changes the frame store (the       *)
(* callback adding a frame or resetting, takeImage resetting or building    *)
(* the output buffer, the etime handler) runs while holding the mutex.      *)
C21_FrameStoreUnderMutex ==
  [][FrameStore' # FrameStore => mtx']_vars

(* C28: in the stacking variant the wait loop ends without a timeout only  *)
(* when the clock has reached the start of the exposure plus the exposure   *)
(* time and at least one frame was counted in the exposure; the request is  *)
(* past its wait loop, and in particular passes, only after such an end.    *)
C28_PassOnlyAfterFullWait ==
  [][/\ (pc = "wait" /\ pc' \in {"header", "bias"})
          => /\ exp_start_ts # 0
             /\ now >= exp_start_ts + etime
             /\ frame_count >= 1
             /\ Len(win.frames) >= 1
     /\ (pc' # pc /\ pc' \in {"header", "bias"}) => pc \in {"wait", "header"}
     /\ (pc' # pc /\ pc' = "write") => pc = "bias"
     /\ (last'.op = "image" /\ last'.res = "pass" /\ last' # last)
          => /\ pc = "write"
             /\ now >= stop_ts
             /\ Len(win.frames) >= 1]_vars

(* a request passed with the two frames it had counted when its wait ended *)
C28_Witness ==
  /\ last.op = "image"
  /\ last.res = "pass"
  /\ frame_count = 2
  /\ Len(win.frames) = 2
  /\ now >= stop_ts

(* the sum over the frames of (pixel - median of its frame), cell by cell *)
RECURSIVE SumOfMedianSubtracted(_, _)
SumOfMedianSubtracted(frames, zero) ==
  IF frames = << >> THEN zero
  ELSE LET f == frames[Len(frames)]
           m == medianCalculation(f, Len(f), 1).val
           rest == SumOfMedianSubtracted(SubSeq(frames, 1, Len(frames) - 1),
                                         zero)
       IN  [i \in 1..Len(f) |-> rest[i] + f[i] - m]

(* C29: while an exposure is open, after the callbacks of the accepted      *)
(* frames f1..fN have run, every accumulator cell is the sum over those     *)
(* frames of (pixel of the frame - median of the frame).                    *)
C29_AccumulatorIsSum ==
  (win.open /\ cb.pc = "idle" /\ stack_data # NoStack)
    => stack_data = SumOfMedianSubtracted(win.frames, Zeroed(stack_data))

(* C30: a callback that found no exposure active (start timestamp 0)      *)
(* resets the frame count and the accumulator and then adds its frame:      *)
(* when it ends the frame count is exactly 1 and the accumulator holds the  *)
(* contribution of that frame to a zeroed accumulator and nothing else.     *)
C30_FrameOutsideExposure ==
  [][(cb.pc = "lock" /\ cb.reset /\ cb'.pc = "idle")
       => /\ frame_count' = 1
          /\ stack_data' =
               accumulate([i \in 1..Len(cb.bitmap) |-> 0], cb.bitmap,
                          medianCalculation(cb.bitmap, Len(cb.bitmap), 1).val)
    ]_vars

(* such a callback has ended after a request had left two frames counted *)
C30_Witness ==
  /\ last.op = "frame"
  /\ last.res = "added"
  /\ exp_start_ts = 0
  /\ frame_count = 1
  /\ Len(win.frames) = 2
  /\ ~win.open
  /\ image # NoImage

(* C31: a callback whose frame has another size than the established      *)
(* accumulator drops the frame: it leaves the accumulator, the frame count  *)
(* and the exposure-start timestamp as they were and goes no further; only  *)
(* a frame of the accumulator's size goes on to be added.                   *)
C31_MismatchedFrameDropped ==
  [][/\ (cb.pc = "idle" /\ last'.op = "frame" /\ last'.res = "dropped")
          => /\ FrameStore' = FrameStore
             /\ cb'.pc = "idle"
             /\ win' = win
     /\ cb'.pc # "idle" => Len(cb'.bitmap) = Len(stack_data')]_vars

(* a frame of one pixel was dropped during an exposure that had counted a   *)
(* frame of two pixels                                                      *)
C31_Witness ==
  /\ last.op = "frame"
  /\ last.res = "dropped"
  /\ win.open
  /\ frame_count = 1
  /\ Len(stack_data) = 2
  /\ exp_start_ts # 0

(* C22 as stated: in every reachable state an exposure-start timestamp of   *)
(* 0 implies a frame count of 0.                                            *)
C22_ZeroStartImpliesNoFrames ==
  exp_start_ts = 0 => frame_count = 0

(* C22, amended: with a timestamp of 0 the frame count and the accumulator  *)
(* may hold stale values; every step that starts an exposure (sets the      *)
(* timestamp) leaves the frame count 0 and every accumulator cell 0.        *)
C22_StartZeroesStaleCount ==
  [][(exp_start_ts' # 0 /\ exp_start_ts' # exp_start_ts)
       => /\ frame_count' = 0
          /\ \A i \in 1..Len(stack_data') : stack_data'[i] = 0]_vars

(* a second exposure has just started, after a request that built an        *)
(* output buffer from the frames it counted                                 *)
C22_Witness ==
  /\ last.op = "image"
  /\ last.res = "wait"
  /\ shots = 2
  /\ image # NoImage
  /\ exp_start_ts # 0
  /\ frame_count = 0
  /\ stack_data # NoStack

-----------------------------------------------------------------------------
(* Image requests of several connections, the request of zwocamServ device *)
(* call by device call.  The environment decides when a client sends its   *)
(* image line and what every device call returns.                          *)

(* a client writes an image line to its connection *)
request_send(c) ==
  /\ alive
  /\ conn[c].open
  /\ c \notin req
  /\ req' = req \cup {c}
  /\ UNCHANGED <<focus, variant, alive, etime, frame_count, exp_start_ts,
                 ss_etime, ss_running, conn, heap, hosts, fds, resp, out,
                 xfer, last, gvars, rx, svars, mtx, lvars, acq, calls>>

(* ASI_EXPOSURE_STATUS: idle, working, success, failed *)
DeviceStatus == {"idle", "working", "success", "failed"}

DeviceCall(f, r) == [f |-> f, r |-> r]

(* the status polls at the end of the log *)
RECURSIVE trailing_polls(_)
trailing_polls(log) ==
  IF log = << >> \/ log[Len(log)].f # "status" THEN 0
  ELSE 1 + trailing_polls(SubSeq(log, 1, Len(log) - 1))

(* variant: the exposure is read out without the wait for its end *)
zwo_after_nowait(step) ==
  CASE step = "setexp" -> "setgain"
    [] step = "setgain" -> "start"
    [] step = "start" -> "readout"
    [] step = "readout" -> "encode"

(* the statement that follows a device call that returned ASI_SUCCESS *)
zwo_after(step) ==
  CASE step = "setexp" -> "setgain"
    [] step = "setgain" -> "start"
    [] step = "start" -> "poll"
    [] step = "readout" -> "encode"

(* what a step of the request leaves alone *)
zwo_keeps ==
  /\ mtx' = FALSE
  /\ UNCHANGED <<gvars, rx, now, stop_ts, cb, stack_data, image, stackcnt,
                 win, lvars, req>>

(* the request goes on with the next statement *)
zwo_continue(c, res) ==
  /\ last' = [op |-> "device", c |-> c, res |-> res, a |-> 0, b |-> 0]
  /\ resp' = NoResp
  /\ out' = NoOut
  /\ UNCHANGED <<focus, variant, alive, etime, frame_count, exp_start_ts,
                 ss_etime, ss_running, conn, heap, hosts, fds, xfer>>

(* the request returns at the given step *)
zwo_return(c, step, put) ==
  /\ takeImage(c, step, FITS_BLOCK, << >>, 0, put)
  /\ pc' = "idle"
  /\ acq' = 0

(* client_recv finds the image token and calls takeImage: open() *)
zwo_takeImage_open(c, opened) ==
  /\ variant = "zwo"
  /\ alive
  /\ conn[c].open
  /\ c \in req
  /\ loop_idle
  /\ shots < MaxShots
  /\ shots' = shots + 1
  /\ req' = req \ {c}
  /\ calls' = << >>
  /\ mtx' = FALSE
  /\ UNCHANGED <<gvars, rx, now, stop_ts, cb, stack_data, image, stackcnt,
                 win, lvars>>
  /\ IF opened
     THEN /\ pc' = "prewait"
          /\ acq' = c
          /\ zwo_continue(c, "opened")
     ELSE zwo_return(c, "open", TRUE)

(* do { ASIGetExpStatus; usleep } while (status == ASI_EXP_WORKING) *)
zwo_prewait(st) ==
  /\ variant = "zwo"
  /\ alive
  /\ pc = "prewait"
  /\ st = "working" => trailing_polls(calls) < MaxPolls
  /\ calls' = Append(calls, DeviceCall("status", st))
  /\ pc' = IF st = "working" THEN pc ELSE "setexp"
  /\ zwo_continue(acq, "status")
  /\ zwo_keeps
  /\ UNCHANGED <<acq, shots>>

(* ASISetControlValue(ASI_EXPOSURE), ASISetControlValue(ASI_GAIN),          *)
(* ASIStartExposure, ASIGetDataAfterExp: a result other than ASI_SUCCESS    *)
(* writes the fail response of the call and returns                         *)
zwo_call(ok) ==
  /\ variant = "zwo"
  /\ alive
  /\ pc \in {"setexp", "setgain", "start", "readout"}
  /\ calls' = Append(calls, DeviceCall(pc, IF ok THEN "ok" ELSE "fail"))
  /\ zwo_keeps
  /\ UNCHANGED shots
  /\ IF ok
     THEN /\ pc' = zwo_after(pc)
          /\ zwo_continue(acq, pc)
          /\ UNCHANGED acq
     ELSE zwo_return(acq, pc, TRUE)

(* ASIGetExpStatus; while (status == ASI_EXP_WORKING) { usleep;            *)
(* ASIGetExpStatus }; if (status != ASI_EXP_SUCCESS) fail                   *)
zwo_poll(st) ==
  /\ variant = "zwo"
  /\ alive
  /\ pc = "poll"
  /\ st = "working" => trailing_polls(calls) < MaxPolls
  /\ calls' = Append(calls, DeviceCall("status", st))
  /\ zwo_keeps
  /\ UNCHANGED shots
  /\ IF st \in {"working", "success"}
     THEN /\ pc' = IF st = "working" THEN pc ELSE "readout"
          /\ zwo_continue(acq, "status")
          /\ UNCHANGED acq
     ELSE zwo_return(acq, "status", TRUE)

EncodeSteps == {"ssget", "encode", "fstat", "copy"}

(* writeFITSImage, fstat, the read-back and the response *)
zwo_finish(step, put) ==
  /\ variant = "zwo"
  /\ alive
  /\ pc = "encode"
  /\ step \in EncodeSteps
  /\ put \in PutsAt(step)
  /\ zwo_return(acq, step, put)
  /\ zwo_keeps
  /\ UNCHANGED <<shots, calls>>

NextAcq ==
  \/ /\ loop_idle
     /\ \E c \in ActiveConns : client_add(c)
     /\ UNCHANGED gvars /\ rx' = NoLine /\ UNCHANGED <<svars, mtx, lvars, qvars>>
  \/ \E c \in ActiveConns : request_send(c)
  \/ \E c \in ActiveConns, opened \in BOOLEAN : zwo_takeImage_open(c, opened)
  \/ \E st \in DeviceStatus : zwo_prewait(st)
  \/ \E ok \in BOOLEAN : zwo_call(ok)
  \/ \E st \in DeviceStatus : zwo_poll(st)
  \/ \E step \in EncodeSteps, put \in BOOLEAN : zwo_finish(step, put)
  \/ tick
  \/ \E bitmap \in Bitmaps : callback_enter(bitmap)
  \/ callback_reset
  \/ callback_accumulate
  \/ \E c \in ActiveConns, opened \in BOOLEAN : takeImage_start(c, opened)
  \/ \E c \in ActiveConns : takeImage_timeout(c)
  \/ \E c \in ActiveConns : takeImage_waited(c)
  \/ \E c \in ActiveConns, step \in HeaderSteps, put \in BOOLEAN :
       writeFITSImage_header(c, step, put)
  \/ \E c \in ActiveConns : bias_section(c)
  \/ \E c \in ActiveConns, step \in WriteSteps : takeImage_finish(c, step)

-----------------------------------------------------------------------------
(* main(): the start-up, the signal handlers and the event loop.  The      *)
(* environment decides which start-up step fails, when a termination       *)
(* signal is sent and whether the registry write of cleanup() succeeds.    *)

(* the checked steps of main() in order: ssTouchState, cli_init (zwocamServ *)
(* only), cli_signal, initCameraConnection, sockserv_create, gethostname    *)
(* and getIPAddress, the three ssPutString, ssPutBoolean(TRUE), atexit      *)
StartupSteps ==
  IF variant = "zwo"
  THEN <<"touch", "cli_init", "signal", "camera", "listen", "host",
         "publish", "running", "atexit">>
  ELSE <<"touch", "signal", "camera", "listen", "host", "publish",
         "running", "atexit">>

StepIndex(step) ==
  CHOOSE i \in 1..Len(StartupSteps) : StartupSteps[i] = step

in_startup == \E i \in 1..Len(StartupSteps) : StartupSteps[i] = mpc

(* cli_signal(SIGTERM, cleanup) and cli_signal(SIGINT, cleanup) were called *)
handlers_set == in_startup => StepIndex(mpc) > StepIndex("signal")

(* atexit(cleanup) was called: the last step before the event loop *)
atexit_set == ~in_startup

(* the two registrations have no failure branch *)
can_fail(step) == step \notin {"signal", "atexit"}

(* cleanup(): ssPutBoolean(SS_SERVER_RUNNING, FALSE), then exit *)
cleanup_running(put, running) == IF put THEN FALSE ELSE running

(* one step of main() before the event loop; a failed step calls           *)
(* exit(EXIT_FAILURE) before atexit(cleanup) is reached                     *)
main_step(ok) ==
  LET i == StepIndex(mpc) IN
  /\ alive
  /\ in_startup
  /\ ~ok => can_fail(mpc)
  /\ alive' = ok
  /\ mpc' = IF ~ok THEN mpc
            ELSE IF i = Len(StartupSteps) THEN "unblocked"
            ELSE StartupSteps[i + 1]
  /\ ss_running' = IF ok /\ mpc = "running" THEN TRUE ELSE ss_running
  /\ last' = [op |-> "main", c |-> 0, res |-> IF ok THEN "ok" ELSE "exit",
              a |-> i, b |-> 0]
  /\ resp' = NoResp
  /\ out' = NoOut
  /\ rx' = NoLine
  /\ UNCHANGED <<focus, variant, etime, frame_count, exp_start_ts, ss_etime,
                 conn, heap, hosts, fds, xfer, gvars, svars, mtx, sig, qvars>>

(* cli_signal_block(SIGTERM); cli_signal_block(SIGINT); sockserv_run(...) *)
loop_block ==
  /\ alive
  /\ mpc = "unblocked"
  /\ mpc' = "poll"
  /\ last' = [op |-> "main", c |-> 0, res |-> "block", a |-> 0, b |-> 0]
  /\ resp' = NoResp
  /\ out' = NoOut
  /\ rx' = NoLine
  /\ UNCHANGED <<focus, variant, alive, etime, frame_count, exp_start_ts,
                 ss_etime, ss_running, conn, heap, hosts, fds, xfer, gvars,
                 svars, mtx, sig, qvars>>

(* sockserv_run returns; cli_signal_unblock(SIGTERM);                       *)
(* cli_signal_unblock(SIGINT)                                               *)
loop_unblock ==
  /\ alive
  /\ mpc = "poll"
  /\ mpc' = "unblocked"
  /\ last' = [op |-> "main", c |-> 0, res |-> "unblock", a |-> 0, b |-> 0]
  /\ resp' = NoResp
  /\ out' = NoOut
  /\ rx' = NoLine
  /\ UNCHANGED <<focus, variant, alive, etime, frame_count, exp_start_ts,
                 ss_etime, ss_running, conn, heap, hosts, fds, xfer, gvars,
                 svars, mtx, sig, qvars>>

(* SIGTERM or SIGINT is sent to the process *)
signal_arrive ==
  /\ alive
  /\ ~sig
  /\ sig' = TRUE
  /\ last' = [op |-> "signal", c |-> 0, res |-> "sent", a |-> 0, b |-> 0]
  /\ resp' = NoResp
  /\ out' = NoOut
  /\ rx' = NoLine
  /\ UNCHANGED <<focus, variant, alive, etime, frame_count, exp_start_ts,
                 ss_etime, ss_running, conn, heap, hosts, fds, xfer, gvars,
                 svars, mtx, mpc, qvars>>

(* the pending signal is delivered while it is not blocked: cleanup() once  *)
(* the handlers are set, the default action (the process is terminated)     *)
(* before                                                                   *)
signal_deliver(put) ==
  /\ alive
  /\ sig
  /\ mpc # "poll"
  /\ ~handlers_set => put
  /\ sig' = FALSE
  /\ alive' = FALSE
  /\ ss_running' = IF handlers_set THEN cleanup_running(put, ss_running)
                   ELSE ss_running
  /\ last' = [op |-> IF handlers_set THEN "cleanup" ELSE "signal",
              c |-> 0,
              res |-> IF ~handlers_set THEN "default"
                      ELSE IF put THEN "pass" ELSE "fail",
              a |-> 0, b |-> 0]
  /\ resp' = NoResp
  /\ out' = NoOut
  /\ rx' = NoLine
  /\ UNCHANGED <<focus, variant, etime, frame_count, exp_start_ts, ss_etime,
                 conn, heap, hosts, fds, xfer, gvars, svars, mtx, mpc, qvars>>

(* the hooks run inside sockserv_run *)
NextLife ==
  \/ \E ok \in BOOLEAN : main_step(ok)
  \/ loop_block
  \/ loop_unblock
  \/ signal_arrive
  \/ \E put \in BOOLEAN : signal_deliver(put)
  \/ /\ mpc = "poll"
     /\ \E c \in ActiveConns : client_add(c)
     /\ UNCHANGED gvars /\ rx' = NoLine /\ UNCHANGED <<svars, mtx, lvars, qvars>>
  \/ /\ mpc = "poll"
     /\ \E c \in ActiveConns : client_del(c)
     /\ UNCHANGED gvars /\ rx' = NoLine /\ UNCHANGED <<svars, mtx, lvars, qvars>>
  \/ /\ mpc = "poll"
     /\ \E c \in ActiveConns : client_send_binary(c)
     /\ UNCHANGED gvars /\ rx' = NoLine /\ UNCHANGED <<svars, mtx, lvars, qvars>>
  \/ /\ mpc = "poll"
     /\ \E c \in ActiveConns : image_request(c)
     /\ UNCHANGED gvars /\ rx' = NoLine /\ UNCHANGED <<svars, mtx, lvars, qvars>>

-----------------------------------------------------------------------------
(* Claims about the life of the server process *)

(* C33: every image request that fails after the temporary file was opened *)
(* closes the descriptor before it returns: the number of open descriptors *)
(* is the same before and after a failed request, whether a device call    *)
(* failed, the exposure time was invalid, the wait timed out or the        *)
(* encoding failed.                                                        *)
C33_FailedRequestClosesFd ==
  [][(last'.op = "image" /\ last'.res \notin {"pass", "open"})
       => fds' = fds]_vars

(* C34: whenever streaming is armed with the cursor before the end, the    *)
(* buffer of the connection is non-null, live and holds total_count bytes, *)
(* under every interleaving of image, etime and gain commands with the     *)
(* send hook: the send hook never copies from a released or null buffer.   *)
C34_ArmedMeansBuffer ==
  \A c \in Conns :
    (conn[c].open /\ conn[c].send_data = 1
       /\ conn[c].data_count < conn[c].total_count)
      => /\ conn[c].image_data # NULL
         /\ heap[conn[c].image_data].frees = 0
         /\ heap[conn[c].image_data].size = conn[c].total_count

(* C35: the STACKCNT written to the header of an image equals the number of *)
(* frames whose data is in its payload, under every interleaving of the     *)
(* callbacks with the encoding: here the frames added to the accumulator    *)
(* between the start of the exposure and the building of the output buffer. *)
C35_StackCountIsPayloadFrames ==
  (focus = "stack" /\ last.op = "image" /\ last.res = "pass")
    => stackcnt = Len(win.frames)

(* C23: a failure while an image request is handled, a failed registry read *)
(* of the telemetry during the encoding included, never ends the server:    *)
(* the server is still running and the request got a fail response.         *)
C23_FailureNeverEndsServer ==
  (last.op = "image" /\ last.res # "pass")
    => /\ alive
       /\ resp.c = last.c
       /\ resp.mark = "!"

(* C24: whenever the server process has ended, after a fatal start-up      *)
(* condition or a termination signal, the running-flag of the registry is  *)
(* false.                                                                   *)
C24_EndedMeansFlagFalse ==
  ~alive => ~ss_running

(* C27: cleanup never runs inside the poll call of the event loop, where    *)
(* the hooks execute: the process ends with cleanup only between two poll   *)
(* iterations or before the first.                                          *)
C27_CleanupOutsidePoll ==
  [][(/\ alive
      /\ ~alive'
      /\ \/ last'.op = "cleanup"
         \/ last'.op = "image" /\ last'.res = "ssget")
       => mpc # "poll"]_vars

-----------------------------------------------------------------------------
(* Claims about the image requests of several connections *)

FirstControl(log) ==
  IF \E i \in 1..Len(log) : log[i].f # "status"
  THEN CHOOSE i \in 1..Len(log) :
         /\ log[i].f # "status"
         /\ \A k \in 1..(i - 1) : log[k].f = "status"
  ELSE Len(log) + 1

(* the response text the source gives to a failure of each device call *)
DeviceDiagnostic(f) ==
  CASE f = "setexp" -> "Unable to set exposure time"
    [] f = "setgain" -> "Unable to set gain"
    [] f = "start" -> "Unable to start exposure"
    [] f = "status" -> "Exposure request failed"
    [] f = "readout" -> "Unable to read out image"

(* from the call at position first on the calls are set-exposure,           *)
(* set-gain, trigger, status polls until the status is not working,         *)
(* read-pixels, in that order; read-pixels follows only a poll that         *)
(* returned success; a call that did not succeed is the last one            *)
InDeviceOrder(log, first) ==
  /\ first <= Len(log) => log[first].f = "setexp"
  /\ \A i \in first..(Len(log) - 1) :
       LET a == log[i]
           b == log[i + 1]
       IN  /\ a.r \in {"ok", "working", "success"}
           /\ a.f = "setexp" => b.f = "setgain"
           /\ a.f = "setgain" => b.f = "start"
           /\ a.f = "start" => b.f = "status"
           /\ a.f = "status" =>
                b.f = (IF a.r = "working" THEN "status" ELSE "readout")
           /\ a.f # "readout"

(* a request that ended at a device call ended at its last call, which did  *)
(* not succeed, with the fail response of that call; a request that went    *)
(* on to the encoding had read the pixels after a poll that returned        *)
(* success                                                                  *)
OwnDiagnostic ==
  LET n == Len(calls) IN
  /\ (last.op = "image" /\ last.res \in
        {"setexp", "setgain", "start", "status", "readout"})
       => /\ n > 0
          /\ calls[n].f = last.res
          /\ calls[n].r \notin {"ok", "working", "success"}
          /\ resp = [c |-> last.c, mark |-> "!", cmd |-> "IMAGE",
                     text |-> DeviceDiagnostic(calls[n].f), val |-> NoLen]
  /\ (last.op = "image" /\ last.res \in EncodeSteps \cup {"pass", "read"})
       => /\ n > 1
          /\ calls[n] = DeviceCall("readout", "ok")
          /\ calls[n - 1] = DeviceCall("status", "success")

(* C26 as stated: in zwocamServ the device calls of one image request are   *)
(* set-exposure, set-gain, trigger, polls until not working, read-pixels,   *)
(* strictly in that order, the readout only after a final status of         *)
(* success, a failed call ending the request with its own fail response.    *)
C26_DeviceCallOrder ==
  variant = "zwo" => (InDeviceOrder(calls, 1) /\ OwnDiagnostic)

(* C26, amended: the request first polls the device status until it is not  *)
(* working; the calls after that preliminary wait are set-exposure,         *)
(* set-gain, trigger, polls until not working, read-pixels, in that order,  *)
(* the readout only after a final status of success, a failed call ending   *)
(* the request with its own fail response.                                  *)
C26_OrderAfterPreliminaryWait ==
  LET first == FirstControl(calls) IN
  variant = "zwo" =>
    /\ \A i \in 1..(first - 2) : calls[i].r = "working"
    /\ first <= Len(calls) => /\ first > 1
                              /\ calls[first - 1].r # "working"
    /\ InDeviceOrder(calls, first)
    /\ OwnDiagnostic

(* a request passed after a poll that found the device still working; and   *)
(* the request before it ended at a failed device call                      *)
C26_Witness ==
  /\ variant = "zwo"
  /\ last.op = "image"
  /\ last.res = "pass"
  /\ fds = 1
  /\ shots = 2
  /\ \E i \in 1..Len(calls) :
       /\ i > FirstControl(calls)
       /\ calls[i] = DeviceCall("status", "working")

-----------------------------------------------------------------------------
(* medianCalculation applied to an array of its own                        *)

(* median = medianCalculation(image_copy, width * height, 1): the array is *)
(* permuted in place, image holds it after the call                        *)
median_call ==
  /\ cb.pc = "median"
  /\ LET r == medianCalculation(cb.bitmap, Len(cb.bitmap), 1)
     IN  /\ image' = r.arr
         /\ last' = [op |-> "median", c |-> 0, res |-> "",
                     a |-> r.val, b |-> 0]
  /\ cb' = [cb EXCEPT !.pc = "idle"]
  /\ UNCHANGED <<focus, variant, alive, etime, frame_count, exp_start_ts,
                 ss_etime, ss_running, conn, heap, hosts, fds, resp, out,
                 xfer, gvars, rx, now, stop_ts, pc, stack_data, stackcnt,
                 shots, win, mtx, lvars, qvars>>

NextMedian == median_call

ValuesOf(s) == {s[i] : i \in 1..Len(s)}

(* the number of elements of s that are equal to v *)
CountOf(s, v) == Cardinality({i \in 1..Len(s) : s[i] = v})

(* the k-th smallest element of s, k counted from 0: the element that has  *)
(* at most k elements below it and more than k elements not above it       *)
KthSmallest(s, k) ==
  CHOOSE v \in ValuesOf(s) :
    /\ Cardinality({i \in 1..Len(s) : s[i] < v}) <= k
    /\ Cardinality({i \in 1..Len(s) : s[i] <= v}) > k

(* C32: medianCalculation(arr, n, 1) ends on every non-empty array, arrays *)
(* with equal elements included, returns the element that stands at index  *)
(* (n - 1) / 2 of the sorted array, and only permutes the array: every     *)
(* value occurs in it as often as before.                                  *)
C32_MedianIsMiddleOfSorted ==
  last.op = "median" =>
    /\ cb.pc = "idle"
    /\ last.a = KthSmallest(cb.bitmap, (Len(cb.bitmap) - 1) \div 2)
    /\ Len(image) = Len(cb.bitmap)
    /\ \A v \in ValuesOf(image) \cup ValuesOf(cb.bitmap) :
         CountOf(image, v) = CountOf(cb.bitmap, v)

(* an array of five pixels with equal elements, out of order, whose median *)
(* is not where it was                                                     *)
C32_Witness ==
  /\ last.op = "median"
  /\ cb.bitmap = <<2, 1, 0, 1, 0>>
  /\ last.a = 1
  /\ image # cb.bitmap

-----------------------------------------------------------------------------
(* The waits of an image request, with a device that may report a running  *)
(* exposure for as long as it likes                                        *)

(* one more pass of do { ASIGetExpStatus; usleep } while (WORKING) or of    *)
(* while (WORKING) { usleep; ASIGetExpStatus } after the polls that are     *)
(* logged: last.a keeps the parity of these passes                          *)
zwo_still_working ==
  /\ variant = "zwo"
  /\ alive
  /\ pc \in {"prewait", "poll"}
  /\ trailing_polls(calls) = MaxPolls
  /\ last' = [op |-> "device", c |-> acq, res |-> "working",
              a |-> IF last.res = "working" THEN 1 - last.a ELSE 0, b |-> 0]
  /\ resp' = NoResp
  /\ out' = NoOut
  /\ mtx' = FALSE
  /\ UNCHANGED <<focus, variant, alive, etime, frame_count, exp_start_ts,
                 ss_etime, ss_running, conn, heap, hosts, fds, xfer, gvars,
                 rx, svars, lvars, qvars>>

(* the statements of the thread that handles the request *)
RequestStep ==
  \/ \E st \in DeviceStatus : zwo_prewait(st)
  \/ \E ok \in BOOLEAN : zwo_call(ok)
  \/ \E st \in DeviceStatus : zwo_poll(st)
  \/ zwo_still_working
  \/ \E step \in EncodeSteps, put \in BOOLEAN : zwo_finish(step, put)
  \/ \E c \in ActiveConns : takeImage_timeout(c)
  \/ \E c \in ActiveConns : takeImage_waited(c)
  \/ \E c \in ActiveConns, step \in HeaderSteps, put \in BOOLEAN :
       writeFITSImage_header(c, step, put)
  \/ \E c \in ActiveConns : bias_section(c)
  \/ \E c \in ActiveConns, step \in WriteSteps : takeImage_finish(c, step)

NextWait ==
  \/ /\ loop_idle
     /\ \E c \in ActiveConns : client_add(c)
     /\ UNCHANGED gvars /\ rx' = NoLine /\ UNCHANGED <<svars, mtx, lvars, qvars>>
  \/ \E c \in ActiveConns : request_send(c)
  \/ \E c \in ActiveConns, opened \in BOOLEAN : zwo_takeImage_open(c, opened)
  \/ \E c \in ActiveConns, opened \in BOOLEAN : takeImage_start(c, opened)
  \/ RequestStep
  \/ tick
  \/ \E bitmap \in Bitmaps : callback_enter(bitmap)
  \/ callback_reset
  \/ callback_accumulate

(* the bounds of the model leave room for the request to end: a descriptor *)
(* and a buffer can still be taken, and the clock can still pass the        *)
(* exposure timeout                                                         *)
WaitRoom ==
  /\ fds < MaxFds
  /\ Len(heap) < MaxAlloc
  /\ now + EXPOSE_TIMEOUT < ClockStart + MaxTicks * ClockStep

(* C36: every image request eventually produces a response and returns to  *)
(* the event loop, provided only that the clock advances and the thread    *)
(* keeps running: neither the wait for the device status nor the wait for  *)
(* frames lasts forever.                                                    *)
C36_RequestEndsEventually ==
  (acq # 0 /\ WaitRoom) ~> (acq = 0)

(* the part of C36 about the wait for frames of taucamServ *)
StackWaitEnds ==
  (variant # "zwo" /\ acq # 0 /\ WaitRoom) ~> (acq = 0)

-----------------------------------------------------------------------------
(* The streaming of a payload while the send hook keeps being invoked      *)

(* the select loop calls the send hook of the connection again and again   *)
SendStep ==
  /\ \E c \in ActiveConns : client_send_binary(c)
  /\ UNCHANGED gvars /\ rx' = NoLine /\ UNCHANGED <<svars, mtx, lvars, qvars>>

(* the zero-length chunk has just been handed to connection c, or a        *)
(* further image request has arrived on it, or the connection is gone      *)
StreamOver(c) ==
  \/ /\ last.op = "send" /\ last.c = c /\ last.res = "final"
     /\ conn[c].send_data = 0
  \/ last.op = "image" /\ last.c = c
  \/ ~conn[c].open

(* C37: if the send hook keeps being invoked on a connection with an armed *)
(* stream and no further image request arrives on that connection, the     *)
(* stream eventually delivers its zero-length end marker and the           *)
(* connection is back in text mode with streaming disarmed.                *)
C37_StreamEndsEventually ==
  \A c \in Conns :
    (conn[c].open /\ conn[c].send_data = 1) ~> StreamOver(c)

(* the same for zwocamServ alone, whose commands leave the buffer of an    *)
(* armed stream alone                                                      *)
StreamEndsZwo ==
  \A c \in Conns :
    (variant = "zwo" /\ conn[c].open /\ conn[c].send_data = 1)
      ~> StreamOver(c)

-----------------------------------------------------------------------------
(* Two connections, each with its own streaming state and buffer           *)

(* send_data, data_count, total_count and image_data of a connection, and  *)
(* the block image_data points to                                          *)
StreamOf(cs, h, d) ==
  [send_data |-> cs[d].send_data, data_count |-> cs[d].data_count,
   total_count |-> cs[d].total_count, image_data |-> cs[d].image_data,
   block |-> IF cs[d].image_data = NULL THEN HeapObj(0, 0)
             ELSE h[cs[d].image_data]]

(* C38: a command or an image request handled for one connection, and any  *)
(* other step made for it, never changes the streaming state (send_data,   *)
(* data_count, total_count) of another connection nor the contents of the  *)
(* other connection's buffer.                                              *)
C38_OtherConnectionUntouched ==
  [][\A d \in Conns :
       (conn[d].open /\ last'.c # d)
         => StreamOf(conn', heap', d) = StreamOf(conn, heap, d)]_vars

(* connection 2 is in the middle of its payload when connection 1, itself  *)
(* armed, has its exposure time set or its image taken                     *)
C38_Witness ==
  /\ last.c = 1
  /\ last.op \in {"etime", "image"}
  /\ last.res \in {"pass", ""}
  /\ conn[2].open /\ conn[2].send_data = 1
  /\ conn[2].data_count > 0
  /\ conn[2].data_count < conn[2].total_count
  /\ conn[1].open /\ conn[1].total_count > 0

-----------------------------------------------------------------------------
(* The bias correction applied to an accumulator of its own                *)

NextBias == \E c \in ActiveConns : bias_section(c)

(* C39: every pixel of the final output buffer lies in [0, 65535]: no      *)
(* difference between an accumulated value and the minimum is negative,    *)
(* whatever the accumulator holds, negative median-subtracted sums         *)
(* included, a difference above 65535 is stored as 65535, and a difference *)
(* up to 65535 (in taucamLocal scaled by 0.4) is stored without wrapping.  *)
C39_OutputPixelsInRange ==
  (focus = "bias" /\ last.op = "image" /\ last.res = "bias") =>
    /\ Len(image) = Len(stack_data)
    /\ \A i \in 1..Len(image) :
         LET d == stack_data[i] - last.b IN
         /\ d >= 0
         /\ image[i] \in 0..USHRT_MAX
         /\ d > USHRT_MAX => image[i] = USHRT_MAX
         /\ d <= USHRT_MAX =>
              image[i] = IF variant = "local" THEN Trunc(4 * d, 10) ELSE d

(* a negative sum next to a pixel more than 65535 above it *)
C39_Witness ==
  /\ focus = "bias"
  /\ last.op = "image" /\ last.res = "bias"
  /\ stack_data = <<-USHRT_MAX, USHRT_MAX>>
  /\ last.b = -USHRT_MAX
  /\ image = <<0, USHRT_MAX>>

-----------------------------------------------------------------------------
(* str_to_gain applied to the second argument of taucamLocal               *)

(* the characters strncmp(a, b, n) compares: up to n, the terminating NUL  *)
(* of a shorter string included                                            *)
strn(a, n) ==
  IF Len(a) < n THEN Append(a, "NUL") ELSE SubSeq(a, 1, n)

(* strncmp(a, b, n) == 0 *)
strncmp0(a, b, n) == strn(a, n) = strn(b, n)

(* the n of the strncmp calls of str_to_gain *)
GAIN_STR_CMP == 10

(* str_to_gain: if AUTO 0, else if HIGH 1; then a second chain, if LOW 2,  *)
(* else if MANUAL 3, else 0; the value of the first chain is overwritten   *)
(* by the second                                                           *)
str_to_gain(gain_str) ==
  LET first == IF strncmp0(GAIN_AUTO_STRING, gain_str, GAIN_STR_CMP) THEN 0
               ELSE IF strncmp0(GAIN_HIGH_STRING, gain_str, GAIN_STR_CMP)
               THEN 1
               ELSE NoLen
      gain_int == IF strncmp0(GAIN_LOW_STRING, gain_str, GAIN_STR_CMP) THEN 2
                  ELSE IF strncmp0(GAIN_MANUAL_STRING, gain_str, GAIN_STR_CMP)
                  THEN 3
                  ELSE 0
  IN  GainModes[gain_int + 1]

(* main(): gain_t gain_val = str_to_gain(argv[2]) *)
str_to_gain_call ==
  /\ variant = "local"
  /\ alive
  /\ gain' = str_to_gain(rx)
  /\ last' = [op |-> "str_to_gain", c |-> 0, res |-> gain', a |-> 0, b |-> 0]
  /\ UNCHANGED <<focus, variant, alive, etime, frame_count, exp_start_ts,
                 ss_etime, ss_running, conn, heap, hosts, fds, resp, out,
                 xfer, ss_gain, dev_gain, rx, svars, mtx, lvars, qvars>>

NextArgv == str_to_gain_call

(* C40: str_to_gain maps the strings AUTO, HIGH, LOW and MANUAL to         *)
(* GAIN_AUTO, GAIN_HIGH, GAIN_LOW and GAIN_MANUAL, and every other string  *)
(* to GAIN_AUTO.                                                           *)
C40_StrToGainNamesMode ==
  last.op = "str_to_gain" =>
    gain = IF rx = GAIN_HIGH_STRING THEN "HIGH"
           ELSE IF rx = GAIN_LOW_STRING THEN "LOW"
           ELSE IF rx = GAIN_MANUAL_STRING THEN "MANUAL"
           ELSE "AUTO"

(* what the code does hold to: HIGH is taken for AUTO like every string    *)
(* other than LOW and MANUAL                                               *)
StrToGainAsWritten ==
  last.op = "str_to_gain" =>
    gain = IF rx = GAIN_LOW_STRING THEN "LOW"
           ELSE IF rx = GAIN_MANUAL_STRING THEN "MANUAL"
           ELSE "AUTO"

Spec == Init /\ [][Next]_vars

SpecImage == InitImage /\ [][Next]_vars

SpecEtime == InitEtime /\ [][Next]_vars

(* Command lines: every sample line through the receive hook *)
InitCmd == InitFor("cmd")

SpecCmd == InitCmd /\ [][Next]_vars

(* The stacking threads of taucamServ and taucamLocal, step by step *)
InitStack == InitFor("stack")

SpecStack == InitStack /\ [][NextStack]_vars

(* The whole life of the process: start-up, event loop, signals *)
InitLife == InitFor("life")

SpecLife == InitLife /\ [][NextLife]_vars

(* Image requests of two connections, with the device calls of zwocamServ *)
InitAcq == InitFor("multi")

SpecAcq == InitAcq /\ [][NextAcq]_vars

(* Exposure-time commands and image requests while the send hook keeps    *)
(* being invoked                                                           *)
SpecSend == InitEtime /\ [][Next]_vars /\ WF_vars(SendStep)

(* Two connections with commands, image requests and streaming *)
InitPair == InitFor("pair")

SpecPair == InitPair /\ [][Next]_vars

(* The waits of an image request: the clock advances and the thread that  *)
(* handles the request executes its next statement                         *)
InitWait == InitFor("wait")

SpecWait ==
  InitWait /\ [][NextWait]_vars /\ WF_vars(tick) /\ WF_vars(RequestStep)

(* The bias correction on every accumulator up to the bounds *)
InitBias == InitFor("bias")

SpecBias == InitBias /\ [][NextBias]_vars

(* str_to_gain on the sample strings *)
InitArgv == InitFor("argv")

SpecArgv == InitArgv /\ [][NextArgv]_vars

(* medianCalculation on every array up to the bounds *)
InitMedian == InitFor("median")

SpecMedian == InitMedian /\ [][NextMedian]_vars

====
